---- MODULE Spec2Model ----
(***************************************************************************)
(* Control-plane safety fabric of the zeroclaw CLI (src/src/main.rs).      *)
(*                                                                         *)
(* One CLI process runs one command and exits.  The persistent state is    *)
(* the workspace selection file, the stored AutonomyConfig and the estop   *)
(* state file; `proc` is the process that ran last: its arguments, the     *)
(* state it started from, its exit status and what it wrote to stdout and  *)
(* stderr.  Each command action is the whole handler, from argument        *)
(* validation to the last write; Exit is the process terminating, after    *)
(* which only the persistent state remains.                                *)
(*                                                                         *)
(* File-system writes and the builder are taken to succeed; the intent     *)
(* planner and the security recommendation are inputs of the commands.     *)
(* The presets, onboard and security modules are not part of the sources   *)
(* read here: their operations follow the documented behaviour.            *)
(***************************************************************************)
EXTENDS Integers, Sequences, FiniteSets, TLC

VARIABLES selection_file, autonomy, estop_file, security_config, auth_store, oauth_io,
          estop_procs, proc

vars == <<selection_file, autonomy, estop_file, security_config, auth_store, oauth_io,
          estop_procs, proc>>

\* ------------------------------------------------------------------------
\* Bounds
\* ------------------------------------------------------------------------

\* longest --pack / --remove-pack list given on a command line
MaxPackArgs == 1

\* number of distinct domain patterns given to `estop`
MaxPatterns == 2

\* longest --pack / --remove-pack list handed to compose_selection on its own
MaxComposeArgs == 2

\* ------------------------------------------------------------------------
\* Option values and sequence helpers
\* ------------------------------------------------------------------------

None == <<>>

Some(x) == <<x>>

IsSome(o) == o # <<>>

Unwrap(o) == o[1]

Contains(seq, x) == \E i \in 1..Len(seq) : seq[i] = x

SeqsUpTo(S, n) == UNION {[1..k -> S] : k \in 0..n}

\* ------------------------------------------------------------------------
\* Registry: onboard::FEATURE_PACKS and onboard::PRESETS
\* ------------------------------------------------------------------------

FEATURE_PACKS ==
    { [id |-> "core-agent",     requires_confirmation |-> FALSE],
      [id |-> "browser-native", requires_confirmation |-> FALSE],
      [id |-> "tools-update",   requires_confirmation |-> TRUE] }

PRESETS ==
    { [id |-> "minimal",    packs |-> <<"core-agent">>],
      [id |-> "automation", packs |-> <<"core-agent", "browser-native">>] }

PackIds == {p.id : p \in FEATURE_PACKS}

PresetIds == {p.id : p \in PRESETS}

feature_pack_by_id(id) ==
    IF id \in PackIds THEN Some(CHOOSE p \in FEATURE_PACKS : p.id = id) ELSE None

preset_by_id(id) ==
    IF id \in PresetIds THEN Some(CHOOSE p \in PRESETS : p.id = id) ELSE None

\* ------------------------------------------------------------------------
\* presets:: selection algebra
\* ------------------------------------------------------------------------

from_preset_id(id) ==
    IF IsSome(preset_by_id(id))
    THEN Some([preset_id |-> id,
               packs |-> Unwrap(preset_by_id(id)).packs,
               added_packs |-> <<>>])
    ELSE None

default_selection == from_preset_id("minimal")

RECURSIVE AppendMissing(_, _)
AppendMissing(packs, add) ==
    IF add = <<>> THEN packs
    ELSE AppendMissing(IF Contains(packs, Head(add)) THEN packs
                       ELSE Append(packs, Head(add)),
                       Tail(add))

RemovePacks(packs, remove) == SelectSeq(packs, LAMBDA p : ~Contains(remove, p))

\* compose_selection that leaves the packs to remove in place
compose_selection_keeping_removed(base, add_packs, remove_packs) ==
    IF \/ \E i \in 1..Len(add_packs) : add_packs[i] \notin PackIds
       \/ \E i \in 1..Len(remove_packs) : remove_packs[i] \notin PackIds
    THEN None
    ELSE LET packs == AppendMissing(base.packs, add_packs)
             base_packs == IF IsSome(preset_by_id(base.preset_id))
                           THEN Unwrap(preset_by_id(base.preset_id)).packs
                           ELSE <<>>
         IN Some([preset_id |-> base.preset_id,
                  packs |-> packs,
                  added_packs |-> SelectSeq(packs, LAMBDA p : ~Contains(base_packs, p))])

compose_selection(base, add_packs, remove_packs) ==
    IF \/ \E i \in 1..Len(add_packs) : add_packs[i] \notin PackIds
       \/ \E i \in 1..Len(remove_packs) : remove_packs[i] \notin PackIds
    THEN None
    ELSE LET packs == RemovePacks(AppendMissing(base.packs, add_packs), remove_packs)
             base_packs == IF IsSome(preset_by_id(base.preset_id))
                           THEN Unwrap(preset_by_id(base.preset_id)).packs
                           ELSE <<>>
         IN Some([preset_id |-> base.preset_id,
                  packs |-> packs,
                  added_packs |-> SelectSeq(packs, LAMBDA p : ~Contains(base_packs, p))])

risky_pack_ids(selection) ==
    SelectSeq(selection.packs,
              LAMBDA p : IsSome(feature_pack_by_id(p))
                         /\ Unwrap(feature_pack_by_id(p)).requires_confirmation)

selection_from_plan(plan, current) ==
    LET base == IF IsSome(plan.base_preset_id) THEN from_preset_id(Unwrap(plan.base_preset_id))
                ELSE IF IsSome(current) THEN current
                ELSE default_selection
    IN IF IsSome(base)
       THEN compose_selection(Unwrap(base), plan.add_packs, plan.remove_packs)
       ELSE None

\* presets::import_selection_from_path: the payload document at `path` is doc
import_selection_from_path(current, doc, mode) ==
    LET incoming == [preset_id |-> doc.id, packs |-> <<>>, added_packs |-> <<>>]
    IN IF mode = "overwrite" \/ ~IsSome(current)
       THEN compose_selection(incoming, doc.packs, <<>>)
       ELSE IF mode = "merge"
       THEN compose_selection(Unwrap(current), doc.packs, <<>>)
       ELSE IF \E i \in 1..Len(doc.packs) : doc.packs[i] \notin PackIds
       THEN None
       ELSE current

\* ------------------------------------------------------------------------
\* Consent reason codes (main.rs)
\* ------------------------------------------------------------------------

build_preset_execution_consent_reasons(risky_packs, yes_risky, rebuild, yes_rebuild) ==
    (IF risky_packs # <<>> /\ ~yes_risky THEN <<"risky_pack">> ELSE <<>>)
    \o (IF rebuild /\ ~yes_rebuild THEN <<"rebuild">> ELSE <<>>)

\* ConsentReasonCode::i18n_key
ConsentReasonCode_i18n_key(reason) ==
    CASE reason = "risky_pack" -> "consent.reason.risky_pack"
      [] reason = "rebuild" -> "consent.reason.rebuild"
      [] reason = "security_non_strict" -> "consent.reason.security_non_strict"

\* consent_reason_keys that reports the key of the first reason only
consent_reason_keys_first_only(reasons) ==
    IF reasons = <<>> THEN <<>> ELSE <<ConsentReasonCode_i18n_key(reasons[1])>>

consent_reason_keys(reasons) ==
    [i \in 1..Len(reasons) |-> ConsentReasonCode_i18n_key(reasons[i])]

build_preset_apply_consent_reasons(risky_packs, dry_run, yes_risky, rebuild, yes_rebuild) ==
    IF dry_run THEN <<>>
    ELSE build_preset_execution_consent_reasons(risky_packs, yes_risky, rebuild, yes_rebuild)

\* onboard::recommend_security_profile, as far as the reports read its result
SecurityProfileRecommendation(profile_id) ==
    [profile_id |-> profile_id, requires_explicit_consent |-> profile_id # "strict"]

build_security_apply_consent_reasons(recommendation) ==
    IF recommendation.requires_explicit_consent THEN <<"security_non_strict">> ELSE <<>>

\* the script and the command strings are sequences of words; these three
\* words stand for a line break, a single quote and the text "'" in double
\* quotes
NL == "NL"

SQ == "'"

DQSQ == "DQSQ"

\* raw.replace('\'', "'\"'\"'")
RECURSIVE escape_single_quotes(_)
escape_single_quotes(raw) ==
    IF raw = <<>> THEN <<>>
    ELSE (IF Head(raw) = SQ THEN <<SQ, DQSQ, SQ>> ELSE <<Head(raw)>>)
             \o escape_single_quotes(Tail(raw))

shell_quote(raw) == <<SQ>> \o escape_single_quotes(raw) \o <<SQ>>

\* the command line `zeroclaw security profile set <id> [--yes-risk]`
build_security_apply_command(recommendation) ==
    <<"zeroclaw", "security", "profile", "set", recommendation.profile_id>>
        \o (IF recommendation.requires_explicit_consent THEN <<"--yes-risk">> ELSE <<>>)

\* the command line `zeroclaw preset intent <text> [flags]`; no --capabilities-file
build_preset_intent_command(text, apply, dry_run, yes_risky, rebuild, yes_rebuild) ==
    <<"zeroclaw", "preset", "intent">> \o shell_quote(text)
        \o (IF apply THEN <<"--apply">> ELSE <<>>)
        \o (IF dry_run THEN <<"--dry-run">> ELSE <<>>)
        \o (IF yes_risky THEN <<"--yes-risky">> ELSE <<>>)
        \o (IF rebuild THEN <<"--rebuild">> ELSE <<>>)
        \o (IF yes_rebuild THEN <<"--yes-rebuild">> ELSE <<>>)

GeneratedNextCommand(id, command, consent_reasons) ==
    [id |-> id, command |-> command,
     requires_explicit_consent |-> consent_reasons # <<>>,
     consent_reasons |-> consent_reasons,
     consent_reason_keys |-> consent_reason_keys(consent_reasons)]

\* next_commands with the preview entry always kept
remove_duplicate_preview_never(next_commands) == next_commands

\* if next_commands[0].command == next_commands[1].command { remove(0) }
remove_duplicate_preview(next_commands) ==
    IF next_commands[1].command = next_commands[2].command
    THEN Tail(next_commands)
    ELSE next_commands

\* next_commands of the preset.intent_orchestration report (main.rs 2305-2366)
intent_next_commands(risky, a) ==
    LET preview == GeneratedNextCommand(
                       "preset.apply.preview",
                       build_preset_intent_command(a.text, TRUE, TRUE, FALSE, a.rebuild, FALSE),
                       <<>>)
        apply == GeneratedNextCommand(
                     "preset.apply",
                     build_preset_intent_command(a.text, TRUE, a.dry_run, a.yes_risky,
                                                 a.rebuild, a.yes_rebuild),
                     build_preset_apply_consent_reasons(risky, a.dry_run, a.yes_risky,
                                                        a.rebuild, a.yes_rebuild))
        security == GeneratedNextCommand(
                        "security.profile.set",
                        build_security_apply_command(SecurityProfileRecommendation(a.recommended)),
                        build_security_apply_consent_reasons(
                            SecurityProfileRecommendation(a.recommended)))
    IN remove_duplicate_preview(<<preview, apply, security>>)

\* the word "Run <id> (reasons: ...)?" in double quotes
ConfirmPrompt(id) ==
    CASE id = "preset.apply.preview" -> "\"Run preset.apply.preview?\""
      [] id = "preset.apply" -> "\"Run preset.apply?\""
      [] id = "security.profile.set" -> "\"Run security.profile.set?\""

\* shebang, set -euo pipefail, the two comment lines and confirm() (1680-1698)
script_preamble(intent) ==
    <<"#", "!/usr/bin/env", "bash", NL,
      "set", "-euo", "pipefail", NL,
      NL,
      "#", "Generated", "by:", "zeroclaw", "preset", "intent">>
        \o shell_quote(intent) \o
    <<"--json", NL,
      "#", "This", "script", "is", "generated", "only.", NL,
      NL,
      "confirm()", "{", "read", "reply;", "case", "[yY]|[yY][eE][sS])", "}", NL,
      NL>>

\* the body of the loop over report.next_commands (main.rs 1700-1722)
script_lines_for_command(command) ==
    IF command.requires_explicit_consent
    THEN <<"#", command.id, NL,
           "if", "confirm", ConfirmPrompt(command.id), ";", "then", NL>>
             \o command.command \o
         <<NL, "else", NL, "echo", "\"Skipped\"", NL, "fi", NL, NL>>
    ELSE <<"#", command.id, NL>> \o command.command \o <<NL, NL>>

RECURSIVE script_lines_for_commands(_)
script_lines_for_commands(next_commands) ==
    IF next_commands = <<>> THEN <<>>
    ELSE script_lines_for_command(Head(next_commands))
             \o script_lines_for_commands(Tail(next_commands))

build_orchestration_shell_script(intent, next_commands) ==
    script_preamble(intent) \o script_lines_for_commands(next_commands)

\* the script file after `if let Some(path) = emit_shell` (main.rs 2381-2388)
emit_orchestration_shell_script(emit_shell, intent, next_commands) ==
    IF emit_shell THEN Some(build_orchestration_shell_script(intent, next_commands))
    ELSE None

\* PresetApplyDryRunReport and PresetImportDryRunReport (main.rs 2229-2245,
\* 2587-2606)
preset_dry_run_report(report_type, planned, risky, execution_consent_reasons, rebuild) ==
    [report_type |-> report_type,
     planned_selection |-> planned,
     risky_packs |-> risky,
     apply_requires_explicit_consent |-> execution_consent_reasons # <<>>,
     apply_consent_reasons |-> execution_consent_reasons,
     apply_consent_reason_keys |-> consent_reason_keys(execution_consent_reasons),
     rebuild_requested |-> rebuild,
     workspace_written |-> FALSE]

\* ------------------------------------------------------------------------
\* maybe_rebuild_selection: ok = returned Ok, ran = the builder was executed
\* ------------------------------------------------------------------------

\* maybe_rebuild_selection without the early return of a dry run
maybe_rebuild_selection_ignoring_dry_run(rebuild, dry_run, approved) ==
    IF ~rebuild THEN [ok |-> TRUE, ran |-> FALSE, out |-> <<>>]
    ELSE IF ~dry_run /\ ~approved THEN [ok |-> FALSE, ran |-> FALSE, out |-> <<>>]
    ELSE [ok |-> TRUE, ran |-> TRUE, out |-> <<"text:rebuild_preview", "text:rebuild_completed">>]

maybe_rebuild_selection(rebuild, dry_run, approved) ==
    IF ~rebuild THEN [ok |-> TRUE, ran |-> FALSE, out |-> <<>>]
    ELSE IF ~dry_run /\ ~approved THEN [ok |-> FALSE, ran |-> FALSE, out |-> <<>>]
    ELSE IF dry_run THEN [ok |-> TRUE, ran |-> FALSE, out |-> <<"text:rebuild_preview">>]
    ELSE [ok |-> TRUE, ran |-> TRUE, out |-> <<"text:rebuild_preview", "text:rebuild_completed">>]

\* ------------------------------------------------------------------------
\* compose_selection on its own: any base a command can hand it, any lists
\* ------------------------------------------------------------------------

ComposePackIds == PackIds \cup {"no-such-pack"}

\* an official preset, or a workspace selection an earlier apply composed
ComposeBases ==
    {Unwrap(from_preset_id(id)) : id \in PresetIds}
    \cup {Unwrap(compose_selection(Unwrap(from_preset_id(id)), <<p>>, <<>>)) :
             id \in PresetIds, p \in PackIds}
    \cup {Unwrap(compose_selection(Unwrap(from_preset_id(id)), <<>>, <<p>>)) :
             id \in PresetIds, p \in PackIds}

ComposeSelection ==
    /\ proc.cmd = "none"
    /\ \E base \in ComposeBases,
          add_packs \in SeqsUpTo(ComposePackIds, MaxComposeArgs),
          remove_packs \in SeqsUpTo(ComposePackIds, MaxComposeArgs) :
          proc' = [cmd |-> "compose_selection",
                   args |-> [base |-> base, add_packs |-> add_packs,
                             remove_packs |-> remove_packs],
                   result |-> compose_selection(base, add_packs, remove_packs)]
    /\ UNCHANGED <<selection_file, autonomy, estop_file, security_config, auth_store, oauth_io, estop_procs>>

\* ------------------------------------------------------------------------
\* Handler results.  selection is the content of the workspace selection
\* file when the handler returns; saved tells whether
\* presets::save_workspace_selection was called.
\* ------------------------------------------------------------------------

PresetResult(exit, selection, saved, builder_ran, stdout, stderr, planned, reasons) ==
    [exit |-> exit, selection |-> selection, saved |-> saved,
     builder_ran |-> builder_ran, stdout |-> stdout, stderr |-> stderr,
     planned |-> planned, reasons |-> reasons,
     report |-> None, next_commands |-> <<>>, script |-> None]

\* a `--dry-run --json` run of Apply or Import: the report is the whole output
preset_json_dry_run(before, after, a, report_type) ==
    LET risky == risky_pack_ids(after)
        reasons == build_preset_execution_consent_reasons(
                       risky, a.yes_risky, a.rebuild, a.yes_rebuild)
    IN [PresetResult("ok", before, FALSE, FALSE,
                     IF report_type = "preset.apply_dry_run"
                     THEN <<"json:preset.apply_dry_run">>
                     ELSE <<"json:preset.import_dry_run">>,
                     <<>>, Some(after), reasons)
        EXCEPT !.report = Some(preset_dry_run_report(report_type, after, risky,
                                                     reasons, a.rebuild))]

\* the risky-pack gate with --yes-risky read the wrong way round
risky_pack_gate_refuses_inverted_consent(risky, yes_risky, dry_run) ==
    risky # <<>> /\ yes_risky /\ ~dry_run

\* `if !risky.is_empty() && !yes_risky && !dry_run { bail!(..) }`
risky_pack_gate_refuses(risky, yes_risky, dry_run) ==
    risky # <<>> /\ ~yes_risky /\ ~dry_run

\* the same with the selection saved before the plan is printed
apply_planned_selection_saves_first(before, after, a, printed) ==
    LET risky == risky_pack_ids(after)
        reasons == build_preset_execution_consent_reasons(
                       risky, a.yes_risky, a.rebuild, a.yes_rebuild)
        risky_line == IF risky # <<>> THEN <<"text:risky_packs">> ELSE <<>>
    IN IF risky_pack_gate_refuses(risky, a.yes_risky, a.dry_run)
       THEN PresetResult("fail", before, FALSE, FALSE, printed,
                         <<"error:risky_pack_consent">>, Some(after), reasons)
       ELSE IF a.dry_run
       THEN LET rb == maybe_rebuild_selection(a.rebuild, TRUE, TRUE)
            IN PresetResult("ok", before, FALSE, rb.ran,
                            printed \o risky_line \o <<"text:dry_run_no_changes">> \o rb.out,
                            <<>>, Some(after), reasons)
       ELSE LET rb == maybe_rebuild_selection(a.rebuild, FALSE, a.yes_rebuild)
            IN PresetResult(IF rb.ok THEN "ok" ELSE "fail", Some(after), TRUE, rb.ran,
                            <<"text:saved_selection">> \o printed \o risky_line \o rb.out,
                            IF rb.ok THEN <<>> ELSE <<"error:rebuild_consent">>,
                            Some(after), reasons)

\* The part of Apply, Import and Intent --apply after the plan is printed:
\* risky-pack gate, dry-run return, save, rebuild.
apply_planned_selection(before, after, a, printed) ==
    LET risky == risky_pack_ids(after)
        reasons == build_preset_execution_consent_reasons(
                       risky, a.yes_risky, a.rebuild, a.yes_rebuild)
        risky_line == IF risky # <<>> THEN <<"text:risky_packs">> ELSE <<>>
    IN IF risky_pack_gate_refuses(risky, a.yes_risky, a.dry_run)
       THEN PresetResult("fail", before, FALSE, FALSE, printed,
                         <<"error:risky_pack_consent">>, Some(after), reasons)
       ELSE IF a.dry_run
       THEN LET rb == maybe_rebuild_selection(a.rebuild, TRUE, TRUE)
            IN PresetResult("ok", before, FALSE, rb.ran,
                            printed \o risky_line \o <<"text:dry_run_no_changes">> \o rb.out,
                            <<>>, Some(after), reasons)
       ELSE LET rb == maybe_rebuild_selection(a.rebuild, FALSE, a.yes_rebuild)
            IN PresetResult(IF rb.ok THEN "ok" ELSE "fail", Some(after), TRUE, rb.ran,
                            printed \o risky_line \o <<"text:saved_selection">> \o rb.out,
                            IF rb.ok THEN <<>> ELSE <<"error:rebuild_consent">>,
                            Some(after), reasons)

\* the selection `preset apply` composes (main.rs 2211-2219)
preset_apply_after(before, a) ==
    LET base == IF IsSome(a.preset) THEN from_preset_id(Unwrap(a.preset))
                ELSE IF IsSome(before) THEN before
                ELSE default_selection
    IN IF IsSome(base)
       THEN compose_selection(Unwrap(base), a.pack, a.remove_pack)
       ELSE None

\* handle_preset_command, PresetCommands::Apply
handle_preset_apply(before, a) ==
    IF a.json /\ ~a.dry_run
    THEN PresetResult("fail", before, FALSE, FALSE, <<>>,
                      <<"error:json_requires_dry_run">>, None, <<>>)
    ELSE LET after == preset_apply_after(before, a)
         IN IF ~IsSome(after)
            THEN PresetResult("fail", before, FALSE, FALSE, <<>>,
                              <<"error:unknown_id">>, None, <<>>)
            ELSE IF a.json
            THEN preset_json_dry_run(before, Unwrap(after), a, "preset.apply_dry_run")
            ELSE apply_planned_selection(before, Unwrap(after), a, <<"text:preset_plan">>)

\* handle_preset_command, PresetCommands::Import
handle_preset_import(before, a) ==
    IF a.json /\ ~a.dry_run
    THEN PresetResult("fail", before, FALSE, FALSE, <<>>,
                      <<"error:json_requires_dry_run">>, None, <<>>)
    ELSE LET after == import_selection_from_path(before, a.doc, a.mode)
         IN IF ~IsSome(after)
            THEN PresetResult("fail", before, FALSE, FALSE, <<>>,
                              <<"error:import_failed">>, None, <<>>)
            ELSE IF a.json
            THEN preset_json_dry_run(before, Unwrap(after), a, "preset.import_dry_run")
            ELSE apply_planned_selection(before, Unwrap(after), a, <<"text:import_plan">>)

\* handle_preset_command, PresetCommands::Intent
\* the mode checks with only the --json one
intent_mode_conflict_json_only(a) == a.json /\ a.apply

\* --json and --emit-shell are plan-only (main.rs 2283-2288)
intent_mode_conflict(a) == (a.json /\ a.apply) \/ (a.emit_shell /\ a.apply)

\* handle_preset_command, PresetCommands::Intent
handle_preset_intent(before, a) ==
    IF intent_mode_conflict(a)
    THEN PresetResult("fail", before, FALSE, FALSE, <<>>,
                      <<"error:plan_only_mode">>, None, <<>>)
    ELSE LET after == selection_from_plan(a.plan, before)
             shell_out == IF a.emit_shell /\ ~a.json
                          THEN <<"text:wrote_shell_script">> ELSE <<>>
             shell_err == IF a.emit_shell /\ a.json
                          THEN <<"notice:wrote_shell_script">> ELSE <<>>
         IN IF ~IsSome(after)
            THEN PresetResult("fail", before, FALSE, FALSE, <<>>,
                              <<"error:unknown_id">>, None, <<>>)
            ELSE IF a.json
            THEN [PresetResult("ok", before, FALSE, FALSE,
                               shell_out \o <<"json:preset.intent_orchestration">>,
                               shell_err, after, <<>>)
                  EXCEPT !.next_commands =
                             intent_next_commands(risky_pack_ids(Unwrap(after)), a),
                         !.script = emit_orchestration_shell_script(
                             a.emit_shell, a.text,
                             intent_next_commands(risky_pack_ids(Unwrap(after)), a))]
            ELSE IF ~a.apply
            THEN [PresetResult("ok", before, FALSE, FALSE,
                               shell_out \o <<"text:intent_plan", "text:next_commands">>,
                               shell_err, after, <<>>)
                  EXCEPT !.next_commands =
                             intent_next_commands(risky_pack_ids(Unwrap(after)), a),
                         !.script = emit_orchestration_shell_script(
                             a.emit_shell, a.text,
                             intent_next_commands(risky_pack_ids(Unwrap(after)), a))]
            ELSE apply_planned_selection(before, Unwrap(after), a,
                                         shell_out \o <<"text:intent_plan">>)

\* handle_preset_command, PresetCommands::Rebuild
handle_preset_rebuild(before, a) ==
    LET rb == maybe_rebuild_selection(TRUE, a.dry_run, a.yes)
    IN PresetResult(IF rb.ok THEN "ok" ELSE "fail", before, FALSE, rb.ran, rb.out,
                    IF rb.ok THEN <<>> ELSE <<"error:rebuild_consent">>, before, <<>>)

\* ------------------------------------------------------------------------
\* Command-line inputs
\* ------------------------------------------------------------------------

PresetArgs == {None, Some("minimal"), Some("automation"), Some("no-such-preset")}

PackArgLists == SeqsUpTo({"browser-native", "tools-update"}, MaxPackArgs)

RemoveArgLists == SeqsUpTo({"tools-update"}, MaxPackArgs)

ImportDocs ==
    { [id |-> "importable-preset", packs |-> <<"core-agent", "browser-native">>],
      [id |-> "importable-preset", packs |-> <<"core-agent", "tools-update">>],
      [id |-> "broken-preset",     packs |-> <<"no-such-pack">>] }

ImportModes == {"overwrite", "merge", "fill"}

\* results of presets::plan_from_intent_with_rules
IntentPlans ==
    [base_preset_id : {None, Some("automation")},
     add_packs : {<<>>, <<"tools-update">>},
     remove_packs : {<<>>}]
    \cup { [base_preset_id |-> Some("automation"), add_packs |-> <<>>,
            remove_packs |-> <<"browser-native">>] }

\* the TEXT argument of `preset intent`, word by word
IntentText == <<"need", "unattended", "browser", "automation">>

ProfileIds == {"strict", "balanced", "flexible", "full"}

\* results of onboard::recommend_security_profile
RecommendedProfiles == {"strict", "balanced"}

\* ------------------------------------------------------------------------
\* main(): what runs before and around every handler other than onboard
\* ------------------------------------------------------------------------

Idle == [cmd |-> "none"]

\* OtpValidator::from_config returns an enrollment URI or not
EnrollmentChoices == IF security_config.otp_enabled THEN BOOLEAN ELSE {FALSE}

\* main.rs 3005-3017
otp_initialization(enrollment_uri) ==
    IF security_config.otp_enabled /\ enrollment_uri
    THEN <<"text:otp_enrollment">>
    ELSE <<>>

\* main.rs 2713-2727
logging_target(machine_json_mode) == IF machine_json_mode THEN "suppressed" ELSE "stderr"

Finished(cmd, a, machine_json_mode, enrollment_uri, r) ==
    [cmd |-> cmd, args |-> a,
     machine_json |-> machine_json_mode,
     logging |-> logging_target(machine_json_mode),
     before_selection |-> selection_file,
     before_autonomy |-> autonomy,
     before_estop |-> estop_file,
     exit |-> r.exit,
     stdout |-> otp_initialization(enrollment_uri) \o r.stdout,
     stderr |-> r.stderr,
     builder_ran |-> r.builder_ran,
     result |-> r]

\* ------------------------------------------------------------------------
\* Preset commands
\* ------------------------------------------------------------------------

PresetApply ==
    /\ proc.cmd = "none"
    /\ \E preset \in PresetArgs, pack \in PackArgLists, remove_pack \in RemoveArgLists,
          dry_run \in BOOLEAN, yes_risky \in BOOLEAN, rebuild \in BOOLEAN,
          yes_rebuild \in BOOLEAN, json \in BOOLEAN, enrollment_uri \in EnrollmentChoices :
          LET a == [preset |-> preset, pack |-> pack, remove_pack |-> remove_pack,
                    dry_run |-> dry_run, yes_risky |-> yes_risky, rebuild |-> rebuild,
                    yes_rebuild |-> yes_rebuild, json |-> json, apply |-> TRUE]
              r == handle_preset_apply(selection_file, a)
          IN /\ selection_file' = r.selection
             /\ proc' = Finished("preset_apply", a, json, enrollment_uri, r)
    /\ UNCHANGED <<autonomy, estop_file, security_config, auth_store, oauth_io, estop_procs>>

PresetImport ==
    /\ proc.cmd = "none"
    /\ \E doc \in ImportDocs, mode \in ImportModes,
          dry_run \in BOOLEAN, yes_risky \in BOOLEAN, rebuild \in BOOLEAN,
          yes_rebuild \in BOOLEAN, json \in BOOLEAN, enrollment_uri \in EnrollmentChoices :
          LET a == [doc |-> doc, mode |-> mode,
                    dry_run |-> dry_run, yes_risky |-> yes_risky, rebuild |-> rebuild,
                    yes_rebuild |-> yes_rebuild, json |-> json, apply |-> TRUE]
              r == handle_preset_import(selection_file, a)
          IN /\ selection_file' = r.selection
             /\ proc' = Finished("preset_import", a, json, enrollment_uri, r)
    /\ UNCHANGED <<autonomy, estop_file, security_config, auth_store, oauth_io, estop_procs>>

PresetIntent ==
    /\ proc.cmd = "none"
    /\ \E plan \in IntentPlans, recommended \in RecommendedProfiles, apply \in BOOLEAN,
          dry_run \in BOOLEAN, yes_risky \in BOOLEAN, rebuild \in BOOLEAN,
          yes_rebuild \in BOOLEAN, json \in BOOLEAN, emit_shell \in BOOLEAN,
          enrollment_uri \in EnrollmentChoices :
          LET a == [text |-> IntentText, plan |-> plan, recommended |-> recommended,
                    apply |-> apply, dry_run |-> dry_run, yes_risky |-> yes_risky,
                    rebuild |-> rebuild, yes_rebuild |-> yes_rebuild, json |-> json,
                    emit_shell |-> emit_shell]
              r == handle_preset_intent(selection_file, a)
          IN /\ selection_file' = r.selection
             /\ proc' = Finished("preset_intent", a, json, enrollment_uri, r)
    /\ UNCHANGED <<autonomy, estop_file, security_config, auth_store, oauth_io, estop_procs>>

PresetRebuild ==
    /\ proc.cmd = "none"
    /\ \E dry_run \in BOOLEAN, yes \in BOOLEAN, enrollment_uri \in EnrollmentChoices :
          LET a == [dry_run |-> dry_run, yes |-> yes]
              r == handle_preset_rebuild(selection_file, a)
          IN /\ selection_file' = r.selection
             /\ proc' = Finished("preset_rebuild", a, FALSE, enrollment_uri, r)
    /\ UNCHANGED <<autonomy, estop_file, security_config, auth_store, oauth_io, estop_procs>>

\* the process terminates; only the files remain
Exit ==
    /\ proc.cmd # "none"
    /\ proc' = Idle
    /\ UNCHANGED <<selection_file, autonomy, estop_file, security_config, auth_store, oauth_io, estop_procs>>

\* ------------------------------------------------------------------------
\* The generated orchestration script run by bash (main.rs 1679-1725)
\* ------------------------------------------------------------------------

\* a word of a command line; quoted words came from inside single quotes
ShellWord(w, quoted) == [w |-> w, quoted |-> quoted]

\* bash splits the script text into command lines: `#` starts a comment that
\* runs to the end of the line, single quotes keep everything up to the next
\* single quote literal, a line break outside quotes ends the command line.
\* st is the reader's state after the words read so far
shell_lex_step(st, tok) ==
    CASE st.mode = "comment" ->
           IF tok = NL
           THEN [mode |-> "normal", line |-> <<>>, lines |-> Append(st.lines, st.line)]
           ELSE st
      [] st.mode = "quote" ->
           IF tok = SQ THEN [st EXCEPT !.mode = "normal"]
           ELSE [st EXCEPT !.line = Append(@, ShellWord(tok, TRUE))]
      [] st.mode = "normal" ->
           IF tok = NL
           THEN [mode |-> "normal", line |-> <<>>, lines |-> Append(st.lines, st.line)]
           ELSE IF tok = "#" THEN [st EXCEPT !.mode = "comment"]
           ELSE IF tok = SQ THEN [st EXCEPT !.mode = "quote"]
           ELSE IF tok = DQSQ THEN [st EXCEPT !.line = Append(@, ShellWord(SQ, TRUE))]
           ELSE [st EXCEPT !.line = Append(@, ShellWord(tok, FALSE))]

\* the reader's state after the words lo..hi, read in order
RECURSIVE shell_lex(_, _, _, _)
shell_lex(tokens, lo, hi, st) ==
    IF lo > hi THEN st
    ELSE IF lo = hi THEN shell_lex_step(st, tokens[lo])
    ELSE LET mid == (lo + hi) \div 2
             left == shell_lex(tokens, lo, mid, st)
         IN IF left.mode = "" THEN left ELSE shell_lex(tokens, mid + 1, hi, left)

shell_lines(text) ==
    LET st == shell_lex(text, 1, Len(text), [mode |-> "normal", line |-> <<>>, lines |-> <<>>])
    IN Append(st.lines, st.line)

\* the command line bash runs for one command string
shell_command_line(command) == shell_lines(command)[1]

\* case "$reply" in [yY]|[yY][eE][sS]) return 0 ;; *) return 1 ;;
confirm(reply) == reply \in {"y", "Y", "yes", "Yes", "YES"}

IsProgramLine(line, program) ==
    line # <<>> /\ line[1] = ShellWord(program, FALSE)

\* bash runs one command line; replies[prompt] is what the user types at
\* that prompt; st.executed is the zeroclaw command lines that ran so far
shell_run_step(st, line, replies) ==
    IF IsProgramLine(line, "if")
    THEN IF Len(line) >= 3 /\ line[2] = ShellWord("confirm", FALSE)
            /\ line[3].w \in DOMAIN replies /\ confirm(replies[line[3].w])
         THEN [st EXCEPT !.branch = "then-taken"]
         ELSE [st EXCEPT !.branch = "then-skipped"]
    ELSE IF IsProgramLine(line, "else")
    THEN [st EXCEPT !.branch = IF @ = "then-taken" THEN "else-skipped" ELSE "else-taken"]
    ELSE IF IsProgramLine(line, "fi")
    THEN [st EXCEPT !.branch = "top"]
    ELSE IF IsProgramLine(line, "zeroclaw") /\ st.branch \in {"top", "then-taken", "else-taken"}
    THEN [st EXCEPT !.executed = Append(@, line)]
    ELSE st

\* the state after the command lines lo..hi, run in order
RECURSIVE shell_run(_, _, _, _, _)
shell_run(lines, lo, hi, replies, st) ==
    IF lo > hi THEN st
    ELSE IF lo = hi THEN shell_run_step(st, lines[lo], replies)
    ELSE LET mid == (lo + hi) \div 2
             left == shell_run(lines, lo, mid, replies, st)
         IN IF left.branch = "" THEN left ELSE shell_run(lines, mid + 1, hi, replies, left)

run_orchestration_shell_script(script, replies) ==
    LET lines == shell_lines(script)
    IN shell_run(lines, 1, Len(lines), replies, [branch |-> "top", executed |-> <<>>]).executed

NextCommandIds == {"preset.apply.preview", "preset.apply", "security.profile.set"}

ConfirmPrompts == {ConfirmPrompt(id) : id \in NextCommandIds}

\* what the user may type at a prompt
Replies == {"y", "Yes", "n", ""}

\* TEXT arguments: plain words, words with a quote, and two texts that
\* hold a line break
IntentTexts ==
    {IntentText,
     <<"it", SQ, "s", "#", "automation">>,
     <<"need", "automation", NL, "for", "updates">>,
     <<"need", "automation", NL,
       "zeroclaw", "security", "profile", "set", "balanced", "--yes-risk", "#">>}

RiskyPackLists == {<<>>, <<"tools-update">>}

\* `preset intent TEXT --emit-shell PATH` followed by `bash PATH`: the script
\* is built from the report's next_commands and run with the user's replies
EmitOrchestrationScript ==
    /\ proc.cmd = "none"
    /\ \E text \in IntentTexts, risky \in RiskyPackLists, recommended \in RecommendedProfiles,
          dry_run \in BOOLEAN, yes_risky \in BOOLEAN, rebuild \in BOOLEAN,
          yes_rebuild \in BOOLEAN, replies \in [ConfirmPrompts -> Replies] :
          LET a == [text |-> text, recommended |-> recommended, apply |-> FALSE,
                    dry_run |-> dry_run, yes_risky |-> yes_risky, rebuild |-> rebuild,
                    yes_rebuild |-> yes_rebuild, emit_shell |-> TRUE]
              next_commands == intent_next_commands(risky, a)
              script == build_orchestration_shell_script(text, next_commands)
          IN proc' = [cmd |-> "emit_script", args |-> a, replies |-> replies,
                      next_commands |-> next_commands, script |-> script,
                      executed |-> run_orchestration_shell_script(script, replies)]
    /\ UNCHANGED <<selection_file, autonomy, estop_file, security_config, auth_store, oauth_io, estop_procs>>

\* ------------------------------------------------------------------------
\* preset export (main.rs 2519-2564)
\* ------------------------------------------------------------------------

\* presets::selection_to_document
selection_to_document(selection) ==
    [schema_version |-> "1", id |-> selection.preset_id, packs |-> selection.packs]

\* the JSON bytes of a payload document, one element per token
document_bytes(document) == <<"{", document.id>> \o document.packs \o <<"}">>

\* presets::export_document_to_path: the content of the file at path afterwards
export_document_to_path(document) == Some(document_bytes(document))

\* Sha256::digest, hex
Sha256_digest(bytes) == <<"sha256">> \o bytes

\* the source of an export decided with the workspace selection ahead of --preset
export_source_workspace_first(current, preset) ==
    IF IsSome(current)
    THEN [selection |-> current, source_kind |-> "workspace_selection",
          requested_preset |-> None]
    ELSE IF IsSome(preset)
    THEN [selection |-> from_preset_id(Unwrap(preset)), source_kind |-> "official_preset",
          requested_preset |-> preset]
    ELSE [selection |-> default_selection, source_kind |-> "default_selection",
          requested_preset |-> None]

\* (selection, source_kind, requested_preset) of PresetCommands::Export
export_source(current, preset) ==
    IF IsSome(preset)
    THEN [selection |-> from_preset_id(Unwrap(preset)), source_kind |-> "official_preset",
          requested_preset |-> preset]
    ELSE IF IsSome(current)
    THEN [selection |-> current, source_kind |-> "workspace_selection",
          requested_preset |-> None]
    ELSE [selection |-> default_selection, source_kind |-> "default_selection",
          requested_preset |-> None]

PresetExportReport(source, payload) ==
    [report_type |-> "preset.export", source_kind |-> source.source_kind,
     requested_preset |-> source.requested_preset,
     selection |-> Unwrap(source.selection),
     bytes_written |-> Len(payload), payload_sha256 |-> Sha256_digest(payload),
     write_performed |-> TRUE]

ExportResult(exit, selection, target_file, stdout, stderr, report) ==
    [exit |-> exit, selection |-> selection, saved |-> FALSE, builder_ran |-> FALSE,
     stdout |-> stdout, stderr |-> stderr, report |-> report,
     target_file |-> target_file]

\* PresetCommands::Export; a.target_before is the file at PATH before the run
handle_preset_export(current, a) ==
    LET source == export_source(current, a.preset)
        written == export_document_to_path(selection_to_document(Unwrap(source.selection)))
    IN IF ~IsSome(source.selection)
       THEN ExportResult("fail", current, a.target_before, <<>>,
                         <<"error:unknown_preset">>, None)
       ELSE IF a.json
       THEN ExportResult("ok", current, written, <<"json:preset.export">>, <<>>,
                         Some(PresetExportReport(source, Unwrap(written))))
       ELSE ExportResult("ok", current, written, <<"text:exported_preset_payload">>,
                         <<>>, None)

\* what PATH holds before the export: nothing, or some other file
TargetFilesBefore == {None, Some(<<"other", "bytes">>)}

PresetExport ==
    /\ proc.cmd = "none"
    /\ \E preset \in PresetArgs, json \in BOOLEAN, target_before \in TargetFilesBefore,
          enrollment_uri \in EnrollmentChoices :
          LET a == [preset |-> preset, json |-> json, target_before |-> target_before,
                    dry_run |-> FALSE]
              r == handle_preset_export(selection_file, a)
          IN proc' = Finished("preset_export", a, json, enrollment_uri, r)
    /\ UNCHANGED <<selection_file, autonomy, estop_file, security_config, auth_store, oauth_io, estop_procs>>

\* ------------------------------------------------------------------------
\* Security profile engine
\* ------------------------------------------------------------------------

\* onboard::autonomy_config_for_security_profile_id
autonomy_config_for_security_profile_id(id) ==
    CASE id = "strict" ->
           [level |-> "supervised", workspace_only |-> TRUE,
            require_approval_for_medium_risk |-> TRUE,
            block_high_risk_commands |-> TRUE,
            allow_non_cli_auto_approval |-> FALSE]
      [] id = "balanced" ->
           [level |-> "supervised", workspace_only |-> TRUE,
            require_approval_for_medium_risk |-> FALSE,
            block_high_risk_commands |-> TRUE,
            allow_non_cli_auto_approval |-> FALSE]
      [] id = "flexible" ->
           [level |-> "supervised", workspace_only |-> FALSE,
            require_approval_for_medium_risk |-> FALSE,
            block_high_risk_commands |-> TRUE,
            allow_non_cli_auto_approval |-> FALSE]
      [] id = "full" ->
           [level |-> "full", workspace_only |-> FALSE,
            require_approval_for_medium_risk |-> FALSE,
            block_high_risk_commands |-> FALSE,
            allow_non_cli_auto_approval |-> FALSE]

\* is_non_strict answering true for strict as well
is_non_strict_always(level) == TRUE

\* SecurityProfileArg::is_non_strict
is_non_strict(level) == level # "strict"

\* allows_auto_approval answering true for manual as well
allows_auto_approval_for_any_mode(mode) == mode \in {"manual", "auto"}

\* NonCliApprovalArg::allows_auto_approval
allows_auto_approval(mode) == mode = "auto"

\* build_security_risk_consent_reasons without the non-CLI reason
build_security_risk_consent_reasons_profile_only(non_strict_profile, enabling_non_cli) ==
    IF non_strict_profile THEN <<"non_strict_profile">> ELSE <<>>

build_security_risk_consent_reasons(non_strict_profile, enabling_non_cli) ==
    (IF non_strict_profile THEN <<"non_strict_profile">> ELSE <<>>)
    \o (IF enabling_non_cli THEN <<"non_cli_auto_approval">> ELSE <<>>)

security_risk_consent_reason_keys(reasons) ==
    [i \in 1..Len(reasons) |->
        IF reasons[i] = "non_strict_profile"
        THEN "security.risk_reason.non_strict_profile"
        ELSE "security.risk_reason.non_cli_auto_approval"]

build_security_profile_change_report(current, target, target_profile_id, risk_consent_reasons, dry_run) ==
    [report_type |-> "security.profile_change",
     current |-> current, target |-> target,
     target_profile_id |-> target_profile_id,
     requires_explicit_risk_consent |-> risk_consent_reasons # <<>>,
     risk_consent_reasons |-> risk_consent_reasons,
     risk_consent_reason_keys |-> security_risk_consent_reason_keys(risk_consent_reasons),
     dry_run |-> dry_run,
     rollback_command |-> "zeroclaw security profile set strict"]

\* the target AutonomyConfig of `security profile set` (main.rs 1946-1951)
security_set_target(a) ==
    LET base == autonomy_config_for_security_profile_id(a.level)
    IN IF IsSome(a.non_cli_approval)
       THEN [base EXCEPT !.allow_non_cli_auto_approval =
                             allows_auto_approval(Unwrap(a.non_cli_approval))]
       ELSE base

\* handle_security_command, SecurityProfileCommands::Set
handle_security_set(current, a) ==
    LET next == security_set_target(a)
        enabling_non_cli_auto_approval ==
            ~current.allow_non_cli_auto_approval /\ next.allow_non_cli_auto_approval
        risk_consent_reasons ==
            build_security_risk_consent_reasons(is_non_strict(a.level),
                                                enabling_non_cli_auto_approval)
        requires_explicit_risk_consent == risk_consent_reasons # <<>>
        report == build_security_profile_change_report(
                      current, next, a.level, risk_consent_reasons, a.dry_run)
        printed == (IF a.json THEN <<"json:security.profile_change">>
                    ELSE <<"text:security_change_report">>)
                   \o (IF a.export_diff /\ ~a.json
                       THEN <<"text:exported_security_diff">> ELSE <<>>)
        noticed == IF a.export_diff /\ a.json
                   THEN <<"notice:exported_security_diff">> ELSE <<>>
        tail == IF a.json THEN <<>> ELSE <<"text:rollback_command">>
    IN IF requires_explicit_risk_consent /\ ~a.yes_risk /\ ~a.dry_run
       THEN [exit |-> "fail", autonomy |-> current, config_saved |-> FALSE,
             builder_ran |-> FALSE, stdout |-> printed,
             stderr |-> noticed \o <<"error:risk_consent">>, report |-> report]
       ELSE IF a.dry_run
       THEN [exit |-> "ok", autonomy |-> current, config_saved |-> FALSE,
             builder_ran |-> FALSE,
             stdout |-> printed \o (IF a.json THEN <<>>
                                    ELSE <<"text:dry_run_no_changes">>) \o tail,
             stderr |-> noticed, report |-> report]
       ELSE [exit |-> "ok", autonomy |-> next, config_saved |-> TRUE,
             builder_ran |-> FALSE,
             stdout |-> printed \o (IF a.json THEN <<>>
                                    ELSE <<"text:saved_config">>) \o tail,
             stderr |-> noticed, report |-> report]

NonCliApprovalArgs == {None, Some("manual"), Some("auto")}

SecurityProfileSet ==
    /\ proc.cmd = "none"
    /\ \E level \in ProfileIds, non_cli_approval \in NonCliApprovalArgs,
          dry_run \in BOOLEAN, yes_risk \in BOOLEAN, json \in BOOLEAN,
          export_diff \in BOOLEAN, enrollment_uri \in EnrollmentChoices :
          LET a == [level |-> level, non_cli_approval |-> non_cli_approval,
                    dry_run |-> dry_run, yes_risk |-> yes_risk, json |-> json,
                    export_diff |-> export_diff]
              r == handle_security_set(autonomy, a)
          IN /\ autonomy' = r.autonomy
             /\ proc' = Finished("security_profile_set", a, json, enrollment_uri, r)
    /\ UNCHANGED <<selection_file, estop_file, security_config, auth_store, oauth_io, estop_procs>>

\* the selection `security profile recommend` plans for (main.rs 2034-2041)
security_recommend_planned_selection(current_selection, a) ==
    LET planned == IF IsSome(a.from_preset)
                   THEN IF IsSome(from_preset_id(Unwrap(a.from_preset)))
                        THEN compose_selection(Unwrap(from_preset_id(Unwrap(a.from_preset))),
                                               a.plan.add_packs, a.plan.remove_packs)
                        ELSE None
                   ELSE selection_from_plan(a.plan, current_selection)
    IN IF IsSome(planned)
       THEN compose_selection(Unwrap(planned), a.pack, a.remove_pack)
       ELSE None

\* SecurityProfileIntentRecommendationReport (main.rs 2043-2067)
security_profile_recommendation_report(planned_selection, recommendation) ==
    [report_type |-> "security.profile_recommendation",
     recommended_profile |-> recommendation,
     planned_selection |-> planned_selection,
     risky_packs |-> risky_pack_ids(planned_selection),
     apply_requires_explicit_risk_consent |->
         build_security_apply_consent_reasons(recommendation) # <<>>,
     apply_consent_reasons |-> build_security_apply_consent_reasons(recommendation),
     apply_consent_reason_keys |->
         consent_reason_keys(build_security_apply_consent_reasons(recommendation)),
     apply_command |-> build_security_apply_command(recommendation)]

\* handle_security_command, SecurityProfileCommands::Recommend
handle_security_recommend(current, current_selection, a) ==
    LET planned_selection == security_recommend_planned_selection(current_selection, a)
    IN IF ~IsSome(planned_selection)
       THEN [exit |-> "fail", autonomy |-> current, config_saved |-> FALSE,
             builder_ran |-> FALSE, stdout |-> <<>>, stderr |-> <<"error:unknown_id">>,
             report |-> None]
       ELSE [exit |-> "ok", autonomy |-> current, config_saved |-> FALSE,
             builder_ran |-> FALSE,
             stdout |-> IF a.json THEN <<"json:security.profile_recommendation">>
                        ELSE <<"text:security_recommendation">>,
             stderr |-> <<>>,
             report |-> Some(security_profile_recommendation_report(
                                 Unwrap(planned_selection),
                                 SecurityProfileRecommendation(a.recommended)))]

FromPresetArgs == {None, Some("automation"), Some("no-such-preset")}

SecurityProfileRecommend ==
    /\ proc.cmd = "none"
    /\ \E plan \in IntentPlans, recommended \in RecommendedProfiles,
          from_preset \in FromPresetArgs, pack \in PackArgLists,
          remove_pack \in RemoveArgLists, json \in BOOLEAN,
          enrollment_uri \in EnrollmentChoices :
          LET a == [plan |-> plan, recommended |-> recommended,
                    from_preset |-> from_preset, pack |-> pack,
                    remove_pack |-> remove_pack, json |-> json, dry_run |-> FALSE]
              r == handle_security_recommend(autonomy, selection_file, a)
          IN proc' = Finished("security_profile_recommend", a, json, enrollment_uri, r)
    /\ UNCHANGED <<selection_file, autonomy, estop_file, security_config, auth_store, oauth_io, estop_procs>>

\* ------------------------------------------------------------------------
\* Quick onboarding (main.rs 2733-2999, quick path)
\* ------------------------------------------------------------------------

\* validate_onboard_command_mode without the `--json` requires `--dry-run` rule
json_without_dry_run_accepted(json, dry_run) == FALSE

\* if json && !dry_run { bail!(...) }
json_without_dry_run(json, dry_run) == json /\ ~dry_run

validate_onboard_command_mode(interactive, channels_only, force, api_key_present, provider_present, model_present, memory_present, preset_present, pack_present, intent_present, security_profile_present, yes_security_risk, dry_run, json, rebuild, yes_rebuild) ==
    IF interactive /\ channels_only THEN FALSE
    ELSE IF intent_present /\ (interactive \/ channels_only) THEN FALSE
    ELSE IF intent_present /\ (preset_present \/ pack_present) THEN FALSE
    ELSE IF dry_run /\ (interactive \/ channels_only) THEN FALSE
    ELSE IF json /\ (interactive \/ channels_only) THEN FALSE
    ELSE IF json_without_dry_run(json, dry_run) THEN FALSE
    ELSE IF yes_rebuild /\ ~rebuild THEN FALSE
    ELSE IF channels_only
            /\ (api_key_present \/ provider_present \/ model_present \/ memory_present
                \/ preset_present \/ pack_present \/ intent_present
                \/ security_profile_present \/ yes_security_risk \/ dry_run \/ json
                \/ rebuild \/ yes_rebuild) THEN FALSE
    ELSE IF channels_only /\ force THEN FALSE
    ELSE TRUE

OnboardModeFlags ==
    {"interactive", "channels_only", "force", "api_key_present", "provider_present",
     "model_present", "memory_present", "preset_present", "pack_present", "intent_present",
     "security_profile_present", "yes_security_risk", "dry_run", "json", "rebuild",
     "yes_rebuild"}

\* the call of validate_onboard_command_mode in main (main.rs 2769-2786) for
\* one combination of the onboard flags
ValidateOnboardCommandMode ==
    /\ proc.cmd = "none"
    /\ \E a \in [OnboardModeFlags -> BOOLEAN] :
          proc' = [cmd |-> "validate_onboard_command_mode", args |-> a,
                   ok |-> validate_onboard_command_mode(
                              a.interactive, a.channels_only, a.force, a.api_key_present,
                              a.provider_present, a.model_present, a.memory_present,
                              a.preset_present, a.pack_present, a.intent_present,
                              a.security_profile_present, a.yes_security_risk, a.dry_run,
                              a.json, a.rebuild, a.yes_rebuild)]
    /\ UNCHANGED <<selection_file, autonomy, estop_file, security_config, auth_store, oauth_io, estop_procs>>

\* evaluate_onboard_quick_risk_requirements with its two tests in the other order
evaluate_onboard_quick_risk_requirements_profile_first(risky, profile, yes_security_risk, dry_run) ==
    LET risky_hit == risky # <<>> /\ ~yes_security_risk
        profile_hit == profile # "strict" /\ ~yes_security_risk
    IN IF (risky_hit \/ profile_hit) /\ ~dry_run
       THEN [ok |-> FALSE, consent_reasons |-> <<>>, warning_codes |-> <<>>,
             warnings |-> <<>>]
       ELSE [ok |-> TRUE,
             consent_reasons |->
                 (IF profile_hit THEN <<"security_non_strict">> ELSE <<>>)
                 \o (IF risky_hit THEN <<"risky_pack">> ELSE <<>>),
             warning_codes |->
                 (IF profile_hit THEN <<"security_non_strict_requires_consent">>
                  ELSE <<>>)
                 \o (IF risky_hit THEN <<"risky_pack_requires_consent">> ELSE <<>>),
             warnings |->
                 (IF profile_hit THEN <<"warning:security_profile_non_strict">>
                  ELSE <<>>)
                 \o (IF risky_hit THEN <<"warning:risky_packs">> ELSE <<>>)]

evaluate_onboard_quick_risk_requirements(risky, profile, yes_security_risk, dry_run) ==
    LET risky_hit == risky # <<>> /\ ~yes_security_risk
        profile_hit == profile # "strict" /\ ~yes_security_risk
    IN IF (risky_hit \/ profile_hit) /\ ~dry_run
       THEN [ok |-> FALSE, consent_reasons |-> <<>>, warning_codes |-> <<>>,
             warnings |-> <<>>]
       ELSE [ok |-> TRUE,
             consent_reasons |->
                 (IF risky_hit THEN <<"risky_pack">> ELSE <<>>)
                 \o (IF profile_hit THEN <<"security_non_strict">> ELSE <<>>),
             warning_codes |->
                 (IF risky_hit THEN <<"risky_pack_requires_consent">> ELSE <<>>)
                 \o (IF profile_hit THEN <<"security_non_strict_requires_consent">>
                     ELSE <<>>),
             warnings |->
                 (IF risky_hit THEN <<"warning:risky_packs">> ELSE <<>>)
                 \o (IF profile_hit THEN <<"warning:security_profile_non_strict">>
                     ELSE <<>>)]

\* the selection an --intent plan resolves to, as preset, added and removed
\* packs (main.rs 2792-2850); from_intent is the plan's selection
onboard_intent_resolution(from_intent, planned_preset_packs) ==
    [preset |-> Some(from_intent.preset_id),
     pack |-> SelectSeq(from_intent.packs, LAMBDA p : ~Contains(planned_preset_packs, p)),
     remove_pack |-> SelectSeq(planned_preset_packs,
                               LAMBDA p : ~Contains(from_intent.packs, p))]

\* --security-profile, else the intent's recommendation (main.rs 2851-2860)
onboard_resolved_security_profile(a) ==
    IF IsSome(a.security_profile) THEN a.security_profile
    ELSE IF IsSome(a.intent) THEN Some(Unwrap(a.intent).recommended)
    ELSE None

\* the planned selection of the resolved preset and packs (main.rs 2861-2885)
onboard_planned(resolved, resolved_security_profile) ==
    LET base_selection == from_preset_id(IF IsSome(resolved.preset)
                                         THEN Unwrap(resolved.preset) ELSE "minimal")
    IN IF ~IsSome(base_selection) THEN None
       ELSE LET planned_selection == compose_selection(Unwrap(base_selection),
                                                       resolved.pack, resolved.remove_pack)
            IN IF ~IsSome(planned_selection) THEN None
               ELSE Some([planned_selection |-> Unwrap(planned_selection),
                          resolved_security_profile |-> resolved_security_profile,
                          effective_security_profile |->
                              IF IsSome(resolved_security_profile)
                              THEN Unwrap(resolved_security_profile) ELSE "strict"])

onboard_plan_from_intent(from_intent, resolved_security_profile) ==
    IF ~IsSome(from_intent) THEN None
    ELSE onboard_planned(
             onboard_intent_resolution(
                 Unwrap(from_intent),
                 IF IsSome(preset_by_id(Unwrap(from_intent).preset_id))
                 THEN Unwrap(preset_by_id(Unwrap(from_intent).preset_id)).packs
                 ELSE <<>>),
             resolved_security_profile)

\* the preset, packs and security profile quick onboarding resolves
\* (main.rs 2792-2885); None when an id does not resolve
onboard_quick_plan(a) ==
    IF IsSome(a.intent)
    THEN onboard_plan_from_intent(
             selection_from_plan(Unwrap(a.intent).plan, from_preset_id("minimal")),
             onboard_resolved_security_profile(a))
    ELSE onboard_planned([preset |-> a.preset, pack |-> a.pack, remove_pack |-> <<>>],
                         onboard_resolved_security_profile(a))

\* onboard::run_quick_setup: writes the config and the workspace selection
run_quick_setup(plan) ==
    [selection |-> Some(plan.planned_selection),
     autonomy |-> autonomy_config_for_security_profile_id(plan.effective_security_profile)]

OnboardResult(exit, selection, aut, setup_ran, builder_ran, stdout, stderr, assessment, report) ==
    [exit |-> exit, selection |-> selection, autonomy |-> aut,
     setup_ran |-> setup_ran, builder_ran |-> builder_ran,
     stdout |-> stdout, stderr |-> stderr,
     assessment |-> assessment, report |-> report]

\* a quick onboarding run that ends without writing anything
onboard_unchanged(before_selection, before_autonomy, stdout, err, assessment, report) ==
    OnboardResult(IF err = <<>> THEN "ok" ELSE "fail", before_selection, before_autonomy,
                  FALSE, FALSE, stdout, err, assessment, report)

\* the onboard.quick_dry_run report (main.rs 2893-2925)
onboard_quick_dry_run_report(p, risky, risk_assessment, rebuild) ==
    [report_type |-> "onboard.quick_dry_run",
     planned_selection |-> p.planned_selection,
     risky_packs |-> risky,
     security_profile |-> p.effective_security_profile,
     requires_explicit_consent |-> risk_assessment.consent_reasons # <<>>,
     consent_reasons |-> risk_assessment.consent_reasons,
     consent_reason_keys |-> consent_reason_keys(risk_assessment.consent_reasons),
     warning_codes |-> risk_assessment.warning_codes,
     warnings |-> risk_assessment.warnings,
     rebuild_requested |-> rebuild,
     config_written |-> FALSE,
     workspace_written |-> FALSE]

\* quick onboarding after the risk evaluation (main.rs 2893-2993)
onboard_quick_assessed(before_selection, before_autonomy, a, p, risky, risk_assessment, intent_text) ==
    IF ~risk_assessment.ok
    THEN onboard_unchanged(before_selection, before_autonomy, intent_text,
                           <<"error:risk_consent">>, None, None)
    ELSE IF a.dry_run /\ a.json
    THEN onboard_unchanged(before_selection, before_autonomy,
                           <<"json:onboard.quick_dry_run">>, <<>>, Some(risk_assessment),
                           Some(onboard_quick_dry_run_report(p, risky, risk_assessment,
                                                             a.rebuild)))
    ELSE IF a.dry_run
    THEN LET rb == maybe_rebuild_selection(a.rebuild, TRUE, TRUE)
         IN OnboardResult("ok", before_selection, before_autonomy, FALSE, rb.ran,
                          intent_text \o <<"text:onboard_dry_run">>
                              \o risk_assessment.warnings \o rb.out,
                          <<>>, Some(risk_assessment), None)
    ELSE LET written == run_quick_setup(p)
             rb == maybe_rebuild_selection(a.rebuild, FALSE, a.yes_rebuild)
         IN OnboardResult(IF rb.ok THEN "ok" ELSE "fail",
                          written.selection, written.autonomy, TRUE, rb.ran,
                          intent_text \o <<"text:quick_setup">> \o rb.out,
                          IF rb.ok THEN <<>> ELSE <<"error:rebuild_consent">>,
                          Some(risk_assessment), None)

\* quick onboarding once the plan is resolved (main.rs 2886-2891)
onboard_quick_planned(before_selection, before_autonomy, a, p, risky) ==
    onboard_quick_assessed(
        before_selection, before_autonomy, a, p, risky,
        evaluate_onboard_quick_risk_requirements(risky, p.effective_security_profile,
                                                 a.yes_security_risk, a.dry_run),
        IF IsSome(a.intent) /\ ~a.json THEN <<"text:intent_plan">> ELSE <<>>)

onboard_quick_resolved(before_selection, before_autonomy, a, plan) ==
    IF ~IsSome(plan)
    THEN onboard_unchanged(before_selection, before_autonomy, <<>>,
                           <<"error:unknown_id">>, None, None)
    ELSE onboard_quick_planned(before_selection, before_autonomy, a, Unwrap(plan),
                               risky_pack_ids(Unwrap(plan).planned_selection))

\* main(), Commands::Onboard without --interactive and --channels-only
onboard_quick(before_selection, before_autonomy, a) ==
    IF ~validate_onboard_command_mode(FALSE, FALSE, a.force, FALSE, FALSE, FALSE,
                                      FALSE, IsSome(a.preset), a.pack # <<>>,
                                      IsSome(a.intent), IsSome(a.security_profile),
                                      a.yes_security_risk, a.dry_run, a.json,
                                      a.rebuild, a.yes_rebuild)
    THEN onboard_unchanged(before_selection, before_autonomy, <<>>,
                           <<"error:mode_conflict">>, None, None)
    ELSE onboard_quick_resolved(before_selection, before_autonomy, a, onboard_quick_plan(a))

OnboardSecurityProfileArgs == {None, Some("strict"), Some("full")}

OnboardIntents ==
    {None} \cup {Some(i) : i \in [plan : IntentPlans, recommended : RecommendedProfiles]}

\* without --intent any preset, packs and profile; with --intent no preset and
\* no pack (one conflicting command line is kept)
OnboardSelectionArgs ==
    [intent : {None}, preset : PresetArgs, pack : PackArgLists,
     security_profile : OnboardSecurityProfileArgs]
    \cup [intent : OnboardIntents \ {None}, preset : {None}, pack : {<<>>},
          security_profile : OnboardSecurityProfileArgs]
    \cup [intent : {Some([plan |-> [base_preset_id |-> None, add_packs |-> <<>>,
                                    remove_packs |-> <<>>],
                          recommended |-> "strict"])},
          preset : {Some("automation")}, pack : {<<>>}, security_profile : {None}]

OnboardQuick ==
    /\ proc.cmd = "none"
    /\ \E sel \in OnboardSelectionArgs,
          yes_security_risk \in BOOLEAN, dry_run \in BOOLEAN, json \in BOOLEAN,
          rebuild \in BOOLEAN, yes_rebuild \in BOOLEAN :
          LET a == [intent |-> sel.intent, preset |-> sel.preset, pack |-> sel.pack,
                    security_profile |-> sel.security_profile, force |-> FALSE,
                    yes_security_risk |-> yes_security_risk, dry_run |-> dry_run,
                    json |-> json, rebuild |-> rebuild, yes_rebuild |-> yes_rebuild]
              r == onboard_quick(selection_file, autonomy, a)
          IN /\ selection_file' = r.selection
             /\ autonomy' = r.autonomy
             /\ proc' = Finished("onboard", a, json, FALSE, r)
    /\ UNCHANGED <<estop_file, security_config, auth_store, oauth_io, estop_procs>>

\* ------------------------------------------------------------------------
\* Interactive onboarding (main.rs 2733-2999, --interactive)
\* ------------------------------------------------------------------------

\* onboard::run_wizard: the wizard writes the configuration and, when a
\* preset was chosen, the workspace selection
run_wizard(before_selection, outcome) ==
    [selection |-> IF outcome.preset_chosen THEN from_preset_id("minimal")
                   ELSE before_selection,
     autonomy |-> autonomy_config_for_security_profile_id(outcome.profile)]

\* onboard_rebuild_decision taking the rebuild prompt as answered yes
onboard_rebuild_decision_assuming_yes(interactive, terminal, rebuild, yes_rebuild, has_selection, confirmed) ==
    IF interactive /\ terminal
    THEN IF rebuild /\ ~yes_rebuild
         THEN [run_rebuild |-> TRUE, rebuild_approved |-> TRUE]
         ELSE IF ~rebuild /\ has_selection
         THEN [run_rebuild |-> confirmed, rebuild_approved |-> confirmed \/ yes_rebuild]
         ELSE [run_rebuild |-> rebuild, rebuild_approved |-> yes_rebuild]
    ELSE [run_rebuild |-> rebuild, rebuild_approved |-> yes_rebuild]

\* run_rebuild and rebuild_approved after the prompts (main.rs 2955-2983);
\* confirmed is the answer to whichever prompt is shown
onboard_rebuild_decision(interactive, terminal, rebuild, yes_rebuild, has_selection, confirmed) ==
    IF interactive /\ terminal
    THEN IF rebuild /\ ~yes_rebuild
         THEN [run_rebuild |-> confirmed, rebuild_approved |-> confirmed]
         ELSE IF ~rebuild /\ has_selection
         THEN [run_rebuild |-> confirmed, rebuild_approved |-> confirmed \/ yes_rebuild]
         ELSE [run_rebuild |-> rebuild, rebuild_approved |-> yes_rebuild]
    ELSE [run_rebuild |-> rebuild, rebuild_approved |-> yes_rebuild]

\* main(), Commands::Onboard with --interactive
onboard_interactive(before_selection, before_autonomy, a) ==
    IF ~validate_onboard_command_mode(TRUE, FALSE, a.force, FALSE, FALSE, FALSE, FALSE, FALSE, FALSE, FALSE, FALSE, FALSE, a.dry_run, FALSE, a.rebuild, a.yes_rebuild)
    THEN onboard_unchanged(before_selection, before_autonomy, <<>>,
                           <<"error:mode_conflict">>, None, None)
    ELSE LET written == run_wizard(before_selection, a.wizard)
             decision == onboard_rebuild_decision(TRUE, a.terminal, a.rebuild, a.yes_rebuild,
                                                  IsSome(written.selection), a.confirmed)
             rb == IF decision.run_rebuild
                   THEN maybe_rebuild_selection(TRUE, FALSE, decision.rebuild_approved)
                   ELSE maybe_rebuild_selection(FALSE, FALSE, FALSE)
         IN OnboardResult(IF rb.ok THEN "ok" ELSE "fail",
                          written.selection, written.autonomy, TRUE, rb.ran,
                          <<"text:wizard">> \o rb.out,
                          IF rb.ok THEN <<>> ELSE <<"error:rebuild_consent">>,
                          None, None)

WizardOutcomes == [preset_chosen : BOOLEAN, profile : {"strict", "balanced"}]

OnboardInteractive ==
    /\ proc.cmd = "none"
    /\ \E wizard \in WizardOutcomes, terminal \in BOOLEAN, confirmed \in BOOLEAN,
          dry_run \in BOOLEAN, rebuild \in BOOLEAN, yes_rebuild \in BOOLEAN :
          LET a == [wizard |-> wizard, terminal |-> terminal, confirmed |-> confirmed,
                    force |-> FALSE, dry_run |-> dry_run, json |-> FALSE,
                    rebuild |-> rebuild, yes_rebuild |-> yes_rebuild]
              r == onboard_interactive(selection_file, autonomy, a)
          IN /\ selection_file' = r.selection
             /\ autonomy' = r.autonomy
             /\ proc' = Finished("onboard_interactive", a, FALSE, FALSE, r)
    /\ UNCHANGED <<estop_file, security_config, auth_store, oauth_io, estop_procs>>

\* ------------------------------------------------------------------------
\* Emergency stop
\* ------------------------------------------------------------------------

DomainPool == <<"*.chase.com", "example.com", "*.example.org">>

Domains == {DomainPool[i] : i \in 1..MaxPatterns}

Tools == {"shell", "browser"}

\* security::EstopState::default (updated_at is left out)
EstopDefault ==
    [kill_all |-> FALSE, network_kill |-> FALSE,
     blocked_domains |-> {}, frozen_tools |-> {}]

EstopLevelArgs == {"kill-all", "network-kill", "domain-block", "tool-freeze"}

Failed(what) == [ok |-> FALSE, value |-> what]

Succeeded(value) == [ok |-> TRUE, value |-> value]

\* build_resume_selector that always selects KillAll
build_resume_selector_kill_all(network, domains, tools) ==
    IF (IF network THEN 1 ELSE 0) + (IF domains # {} THEN 1 ELSE 0)
         + (IF tools # {} THEN 1 ELSE 0) > 1
    THEN Failed("error:resume_selector")
    ELSE Succeeded([kind |-> "KillAll", items |-> {}])

build_resume_selector(network, domains, tools) ==
    IF (IF network THEN 1 ELSE 0) + (IF domains # {} THEN 1 ELSE 0)
         + (IF tools # {} THEN 1 ELSE 0) > 1
    THEN Failed("error:resume_selector")
    ELSE IF network THEN Succeeded([kind |-> "Network", items |-> {}])
    ELSE IF domains # {} THEN Succeeded([kind |-> "Domains", items |-> domains])
    ELSE IF tools # {} THEN Succeeded([kind |-> "Tools", items |-> tools])
    ELSE Succeeded([kind |-> "KillAll", items |-> {}])

\* build_engage_level that lets --domain and --tool through with kill-all
build_engage_level_any_args(level, domains, tools) ==
    LET requested == IF IsSome(level) THEN Unwrap(level) ELSE "kill-all"
    IN CASE requested = "kill-all" -> Succeeded([kind |-> "KillAll", items |-> {}])
         [] requested = "network-kill" ->
              IF domains # {} \/ tools # {} THEN Failed("error:engage_args")
              ELSE Succeeded([kind |-> "NetworkKill", items |-> {}])
         [] requested = "domain-block" ->
              IF domains = {} THEN Failed("error:engage_args")
              ELSE IF tools # {} THEN Failed("error:engage_args")
              ELSE Succeeded([kind |-> "DomainBlock", items |-> domains])
         [] requested = "tool-freeze" ->
              IF tools = {} THEN Failed("error:engage_args")
              ELSE IF domains # {} THEN Failed("error:engage_args")
              ELSE Succeeded([kind |-> "ToolFreeze", items |-> tools])

build_engage_level(level, domains, tools) ==
    LET requested == IF IsSome(level) THEN Unwrap(level) ELSE "kill-all"
    IN CASE requested = "kill-all" ->
              IF domains # {} \/ tools # {} THEN Failed("error:engage_args")
              ELSE Succeeded([kind |-> "KillAll", items |-> {}])
         [] requested = "network-kill" ->
              IF domains # {} \/ tools # {} THEN Failed("error:engage_args")
              ELSE Succeeded([kind |-> "NetworkKill", items |-> {}])
         [] requested = "domain-block" ->
              IF domains = {} THEN Failed("error:engage_args")
              ELSE IF tools # {} THEN Failed("error:engage_args")
              ELSE Succeeded([kind |-> "DomainBlock", items |-> domains])
         [] requested = "tool-freeze" ->
              IF tools = {} THEN Failed("error:engage_args")
              ELSE IF domains # {} THEN Failed("error:engage_args")
              ELSE Succeeded([kind |-> "ToolFreeze", items |-> tools])

\* engage that replaces the blocked domains and frozen tools instead of adding to them
EstopManager_engage_replace(state, level) ==
    CASE level.kind = "KillAll" -> [state EXCEPT !.kill_all = TRUE]
      [] level.kind = "NetworkKill" -> [state EXCEPT !.network_kill = TRUE]
      [] level.kind = "DomainBlock" ->
           [state EXCEPT !.blocked_domains = level.items]
      [] level.kind = "ToolFreeze" ->
           [state EXCEPT !.frozen_tools = level.items]

\* security::EstopManager::engage
EstopManager_engage(state, level) ==
    CASE level.kind = "KillAll" -> [state EXCEPT !.kill_all = TRUE]
      [] level.kind = "NetworkKill" -> [state EXCEPT !.network_kill = TRUE]
      [] level.kind = "DomainBlock" ->
           [state EXCEPT !.blocked_domains = @ \cup level.items]
      [] level.kind = "ToolFreeze" ->
           [state EXCEPT !.frozen_tools = @ \cup level.items]

\* resume whose Network selector also drops the blocked domains
EstopManager_resume_network_clears_domains(config, state, selector, otp_code, otp_validator) ==
    IF config.require_otp_to_resume
       /\ (~IsSome(otp_validator) \/ ~IsSome(otp_code) \/ Unwrap(otp_code) # "valid")
    THEN Failed("error:otp")
    ELSE Succeeded(
           CASE selector.kind = "KillAll" -> EstopDefault
             [] selector.kind = "Network" ->
                  [state EXCEPT !.network_kill = FALSE, !.blocked_domains = {}]
             [] selector.kind = "Domains" ->
                  [state EXCEPT !.blocked_domains = @ \ selector.items]
             [] selector.kind = "Tools" ->
                  [state EXCEPT !.frozen_tools = @ \ selector.items])

\* security::EstopManager::resume; otp_code and otp_validator are options
EstopManager_resume(config, state, selector, otp_code, otp_validator) ==
    IF config.require_otp_to_resume
       /\ (~IsSome(otp_validator) \/ ~IsSome(otp_code) \/ Unwrap(otp_code) # "valid")
    THEN Failed("error:otp")
    ELSE Succeeded(
           CASE selector.kind = "KillAll" -> EstopDefault
             [] selector.kind = "Network" -> [state EXCEPT !.network_kill = FALSE]
             [] selector.kind = "Domains" ->
                  [state EXCEPT !.blocked_domains = @ \ selector.items]
             [] selector.kind = "Tools" ->
                  [state EXCEPT !.frozen_tools = @ \ selector.items])

EstopResult(exit, state, stdout, stderr) ==
    [exit |-> exit, estop |-> state, builder_ran |-> FALSE,
     stdout |-> stdout, stderr |-> stderr]

\* the OTP gate of `estop resume` (main.rs 3372-3397): refused, or the code
\* and validator handed to the manager
resume_otp_gate(config, otp, entered) ==
    IF config.require_otp_to_resume
    THEN IF ~config.otp_enabled THEN Failed("error:otp_disabled")
         ELSE Succeeded([otp_code |-> IF IsSome(otp) THEN otp ELSE Some(entered),
                         otp_validator |-> Some("validator")])
    ELSE Succeeded([otp_code |-> otp, otp_validator |-> None])

\* the engage branch refusing when OTP is required for resume but disabled
handle_estop_engage_behind_otp_gate(config, state, a) ==
    IF ~config.estop_enabled THEN EstopResult("fail", state, <<>>, <<"error:estop_disabled">>)
    ELSE LET engage_level == build_engage_level(a.level, a.domains, a.tools)
         IN IF ~engage_level.ok
            THEN EstopResult("fail", state, <<>>, <<engage_level.value>>)
            ELSE IF config.require_otp_to_resume /\ ~config.otp_enabled
            THEN EstopResult("fail", state, <<>>, <<"error:otp_disabled">>)
            ELSE EstopResult("ok", EstopManager_engage(state, engage_level.value),
                             <<"text:estop_engaged", "text:estop_status">>, <<>>)

\* handle_estop_command, None => engage
handle_estop_engage(config, state, a) ==
    IF ~config.estop_enabled THEN EstopResult("fail", state, <<>>, <<"error:estop_disabled">>)
    ELSE LET engage_level == build_engage_level(a.level, a.domains, a.tools)
         IN IF ~engage_level.ok
            THEN EstopResult("fail", state, <<>>, <<engage_level.value>>)
            ELSE EstopResult("ok", EstopManager_engage(state, engage_level.value),
                             <<"text:estop_engaged", "text:estop_status">>, <<>>)

\* handle_estop_command, Some(EstopSubcommands::Resume)
handle_estop_resume(config, state, a) ==
    IF ~config.estop_enabled THEN EstopResult("fail", state, <<>>, <<"error:estop_disabled">>)
    ELSE LET selector == build_resume_selector(a.network, a.domains, a.tools)
             gate == resume_otp_gate(config, a.otp, a.entered)
         IN IF ~selector.ok THEN EstopResult("fail", state, <<>>, <<selector.value>>)
            ELSE IF ~gate.ok THEN EstopResult("fail", state, <<>>, <<gate.value>>)
            ELSE LET resumed == EstopManager_resume(config, state, selector.value,
                                                    gate.value.otp_code,
                                                    gate.value.otp_validator)
                 IN IF ~resumed.ok
                    THEN EstopResult("fail", state, <<>>, <<resumed.value>>)
                    ELSE EstopResult("ok", resumed.value,
                                     <<"text:estop_resume_completed", "text:estop_status">>,
                                     <<>>)

\* handle_estop_command, Some(EstopSubcommands::Status)
handle_estop_status(config, state) ==
    IF ~config.estop_enabled THEN EstopResult("fail", state, <<>>, <<"error:estop_disabled">>)
    ELSE EstopResult("ok", state, <<"text:estop_status">>, <<>>)

OtpArgs == {None, Some("valid"), Some("invalid")}

EstopEngage ==
    /\ proc.cmd = "none"
    /\ \E level \in {None} \cup {Some(l) : l \in EstopLevelArgs},
          domains \in SUBSET Domains, tools \in SUBSET Tools,
          enrollment_uri \in EnrollmentChoices :
          LET a == [level |-> level, domains |-> domains, tools |-> tools]
              r == handle_estop_engage(security_config, estop_file, a)
          IN /\ estop_file' = r.estop
             /\ proc' = Finished("estop_engage", a, FALSE, enrollment_uri, r)
    /\ UNCHANGED <<selection_file, autonomy, security_config, auth_store, oauth_io, estop_procs>>

EstopResume ==
    /\ proc.cmd = "none"
    /\ \E network \in BOOLEAN, domains \in SUBSET Domains, tools \in SUBSET Tools,
          otp \in OtpArgs, entered \in {"valid", "invalid"},
          enrollment_uri \in EnrollmentChoices :
          LET a == [network |-> network, domains |-> domains, tools |-> tools,
                    otp |-> otp, entered |-> entered]
              r == handle_estop_resume(security_config, estop_file, a)
          IN /\ estop_file' = r.estop
             /\ proc' = Finished("estop_resume", a, FALSE, enrollment_uri, r)
    /\ UNCHANGED <<selection_file, autonomy, security_config, auth_store, oauth_io, estop_procs>>

EstopStatus ==
    /\ proc.cmd = "none"
    /\ \E enrollment_uri \in EnrollmentChoices :
          LET r == handle_estop_status(security_config, estop_file)
          IN /\ estop_file' = r.estop
             /\ proc' = Finished("estop_status", [level |-> None], FALSE,
                                 enrollment_uri, r)
    /\ UNCHANGED <<selection_file, autonomy, security_config, auth_store, oauth_io, estop_procs>>

\* ------------------------------------------------------------------------
\* Browser tool (tools/browser.rs).  A URL is its text, a sequence of
\* tokens, together with the parts a browser reads from that text.
\* ------------------------------------------------------------------------

\* host spellings; the bracketed ones are IPv6 literals
HostTokens ==
    {"example.com", "Example.COM", "sub.example.com", "other.com", "localhost",
     "127.0.0.1", "10.0.0.1", "169.254.169.254", "0.0.0.0",
     "[::1]", "[fd00::1]", "[fe80::1]", "[::ffff:10.0.0.1]", "[2001:db8::1]"}

BracketedTokens ==
    {"[::1]", "[fd00::1]", "[fe80::1]", "[::ffff:10.0.0.1]", "[2001:db8::1]"}

SchemeTokens == {"https://", "http://", "file://", "ftp://"}

\* str::to_lowercase on a token
to_lowercase(token) == IF token = "Example.COM" THEN "example.com" ELSE token

\* the part of a token before its first ':'
before_colon(token) ==
    CASE token = ":" -> ""
      [] token \in {"[::1]", "[::ffff:10.0.0.1]"} -> "["
      [] token = "[fd00::1]" -> "[fd00"
      [] token = "[fe80::1]" -> "[fe80"
      [] token = "[2001:db8::1]" -> "[2001"
      [] OTHER -> token

\* `[..]` without its brackets
strip_brackets(token) ==
    CASE token = "[::1]" -> "::1"
      [] token = "[fd00::1]" -> "fd00::1"
      [] token = "[fe80::1]" -> "fe80::1"
      [] token = "[::ffff:10.0.0.1]" -> "::ffff:10.0.0.1"
      [] token = "[2001:db8::1]" -> "2001:db8::1"
      [] OTHER -> token

\* str::parse::<std::net::IpAddr>
parse_IpAddr(s) ==
    CASE s = "127.0.0.1" -> Some([family |-> "V4", kind |-> "loopback", mapped |-> None])
      [] s = "10.0.0.1" -> Some([family |-> "V4", kind |-> "private", mapped |-> None])
      [] s = "169.254.169.254" ->
             Some([family |-> "V4", kind |-> "link_local", mapped |-> None])
      [] s = "0.0.0.0" -> Some([family |-> "V4", kind |-> "unspecified", mapped |-> None])
      [] s = "::1" -> Some([family |-> "V6", kind |-> "loopback", mapped |-> None])
      [] s = "fd00::1" -> Some([family |-> "V6", kind |-> "unique_local", mapped |-> None])
      [] s = "fe80::1" -> Some([family |-> "V6", kind |-> "link_local", mapped |-> None])
      [] s = "::ffff:10.0.0.1" ->
             Some([family |-> "V6", kind |-> "global", mapped |-> Some("private")])
      [] s = "2001:db8::1" -> Some([family |-> "V6", kind |-> "global", mapped |-> None])
      [] OTHER -> None

\* str::trim
RECURSIVE trim_start(_)
trim_start(text) ==
    IF text # <<>> /\ Head(text) = " " THEN trim_start(Tail(text)) ELSE text

RECURSIVE trim_end(_)
trim_end(text) ==
    IF text # <<>> /\ text[Len(text)] = " "
    THEN trim_end(SubSeq(text, 1, Len(text) - 1))
    ELSE text

trim(text) == trim_end(trim_start(text))

\* text.split('/').next()
RECURSIVE split_slash_first(_)
split_slash_first(text) ==
    IF text = <<>> \/ Head(text) = "/" THEN <<>>
    ELSE <<Head(text)>> \o split_slash_first(Tail(text))

\* text.split(':').next()
RECURSIVE split_colon_first(_)
split_colon_first(text) ==
    IF text = <<>> THEN <<>>
    ELSE IF before_colon(Head(text)) = Head(text)
    THEN <<Head(text)>> \o split_colon_first(Tail(text))
    ELSE IF before_colon(Head(text)) = "" THEN <<>>
    ELSE <<before_colon(Head(text))>>

normalize_domains(domains) ==
    SelectSeq([i \in 1..Len(domains) |-> to_lowercase(domains[i])],
              LAMBDA d : d # "")

extract_host(url_str) ==
    LET url == trim(url_str)
        without_scheme == IF url # <<>> /\ Head(url) \in {"https://", "http://", "file://"}
                          THEN Tail(url) ELSE url
        authority == split_slash_first(without_scheme)
        host == IF authority # <<>> /\ Head(authority) \in BracketedTokens
                THEN <<Head(authority)>>
                ELSE split_colon_first(authority)
    IN IF host = <<>> THEN Failed("Invalid URL: no host")
       ELSE Succeeded([i \in 1..Len(host) |-> to_lowercase(host[i])])

\* Ipv4Addr::is_loopback || is_private || is_link_local || is_unspecified
\* || is_broadcast
v4_is_blocked(kind) ==
    kind \in {"loopback", "private", "link_local", "unspecified", "broadcast"}

\* host texts that start with one of string_patterns ("127.", "10.", ..)
starts_with_private_pattern(bare) ==
    bare # <<>> /\ Head(bare) \in {"127.0.0.1", "10.0.0.1", "0.0.0.0"}

is_private_host(host) ==
    LET bare == IF Len(host) = 1 /\ host[1] \in BracketedTokens
                THEN <<strip_brackets(host[1])>> ELSE host
        ip == IF Len(bare) = 1 THEN parse_IpAddr(bare[1]) ELSE None
    IN IF bare = <<"localhost">> THEN TRUE
       ELSE IF IsSome(ip)
       THEN IF Unwrap(ip).family = "V4" THEN v4_is_blocked(Unwrap(ip).kind)
            ELSE \/ Unwrap(ip).kind \in {"loopback", "unspecified", "unique_local",
                                         "link_local"}
                 \/ /\ IsSome(Unwrap(ip).mapped)
                    /\ v4_is_blocked(Unwrap(Unwrap(ip).mapped))
       ELSE starts_with_private_pattern(bare)

\* host.ends_with(".example.com")
ends_with_dot_example_com(host) ==
    host # <<>> /\ host[Len(host)] = "sub.example.com"

host_matches_allowlist(host, allowed) ==
    \E i \in 1..Len(allowed) :
        \/ allowed[i] = "*"
        \/ /\ allowed[i] = "*.example.com"
           /\ (ends_with_dot_example_com(host) \/ host = <<"example.com">>)
        \/ /\ allowed[i] \notin {"*", "*.example.com"}
           /\ \/ host = <<allowed[i]>>
              \/ allowed[i] = "example.com" /\ ends_with_dot_example_com(host)

\* BrowserTool::validate_url; allowed_domains is the normalized list
validate_url(allowed_domains, url_str) ==
    LET url == trim(url_str)
    IN IF url = <<>> THEN Failed("URL cannot be empty")
       ELSE IF Head(url) = "file://" THEN Succeeded("ok")
       ELSE IF Head(url) \notin {"https://", "http://"}
       THEN Failed("Only http:// and https:// URLs are allowed")
       ELSE IF allowed_domains = <<>> THEN Failed("no allowed_domains configured")
       ELSE IF ~extract_host(url).ok THEN extract_host(url)
       ELSE IF is_private_host(extract_host(url).value)
       THEN Failed("Blocked local/private host")
       ELSE IF ~host_matches_allowlist(extract_host(url).value, allowed_domains)
       THEN Failed("Host not in browser.allowed_domains")
       ELSE Succeeded("ok")

BrowserBackendKind_parse(raw) ==
    CASE raw \in {"agent_browser", "agentbrowser"} -> Succeeded("AgentBrowser")
      [] raw \in {"rust_native", "native"} -> Succeeded("RustNative")
      [] raw = "auto" -> Succeeded("Auto")
      [] OTHER -> Failed("Unsupported browser backend")

\* BrowserTool::resolve_backend; env tells which backends this build and
\* this machine offer
resolve_backend(backend, env) ==
    LET configured == BrowserBackendKind_parse(backend)
    IN IF ~configured.ok THEN configured
       ELSE IF configured.value = "AgentBrowser"
       THEN IF env.agent_browser_available THEN Succeeded("AgentBrowser")
            ELSE Failed("agent-browser CLI is unavailable")
       ELSE IF configured.value = "RustNative"
       THEN IF ~env.rust_native_compiled
            THEN Failed("requires build feature 'browser-native'")
            ELSE IF ~env.rust_native_available
            THEN Failed("no Chrome/Chromium executable was found")
            ELSE Succeeded("RustNative")
       ELSE IF env.rust_native_compiled /\ env.rust_native_available
       THEN Succeeded("RustNative")
       ELSE IF env.agent_browser_available THEN Succeeded("AgentBrowser")
       ELSE Failed("found no usable backend")

BrowserResult(success, error, validated, navigated) ==
    [success |-> success, error |-> error, validated |-> validated,
     navigated |-> navigated]

\* execute_agent_browser_action, BrowserAction::Open
execute_agent_browser_open(allowed_domains, url) ==
    IF ~validate_url(allowed_domains, url).ok
    THEN BrowserResult(FALSE, Some(validate_url(allowed_domains, url).value),
                       "rejected", None)
    ELSE BrowserResult(TRUE, None, "accepted", Some(url))

\* execute_rust_native_action and NativeBrowserState::execute_action,
\* BrowserAction::Open
execute_rust_native_open(env, url) ==
    IF ~env.rust_native_compiled
    THEN BrowserResult(FALSE, Some("Rust-native browser backend is not compiled"),
                       "not_called", None)
    ELSE BrowserResult(TRUE, None, "not_called", Some(url))

\* Tool::execute with action "open"
execute_open(tool, env, url) ==
    IF ~env.can_act
    THEN BrowserResult(FALSE, Some("Action blocked: autonomy is read-only"),
                       "not_called", None)
    ELSE IF ~env.record_action
    THEN BrowserResult(FALSE, Some("Action blocked: rate limit exceeded"),
                       "not_called", None)
    ELSE IF ~resolve_backend(tool.backend, env).ok
    THEN BrowserResult(FALSE, Some(resolve_backend(tool.backend, env).value),
                       "not_called", None)
    ELSE IF resolve_backend(tool.backend, env).value = "AgentBrowser"
    THEN execute_agent_browser_open(tool.allowed_domains, url)
    ELSE execute_rust_native_open(env, url)

\* [browser].allowed_domains as configured
AllowedDomainsConfigs ==
    {<<>>, <<"">>, <<"*">>, <<"Example.COM">>, <<"*.example.com">>}

BackendConfigs == {"agent_browser", "rust_native", "auto", "playwright"}

\* BrowserTool::new_with_backend
new_with_backend(allowed_domains, backend) ==
    [allowed_domains |-> normalize_domains(allowed_domains), backend |-> backend]

BrowserEnvs ==
    [can_act : BOOLEAN, record_action : BOOLEAN, agent_browser_available : BOOLEAN,
     rust_native_compiled : BOOLEAN, rust_native_available : BOOLEAN]

\* user:password@ spellings in front of the host
UserinfoTexts == {<<>>, <<"80", "@">>, <<"example.com", ":", "80", "@">>}

\* what follows the host: nothing, a port, a path, a query, a fragment
AfterHostTexts == {<<>>, <<":", "80">>, <<"/", "80">>, <<"?", "80">>, <<"#", "80">>}

\* scheme://[userinfo@]host[:port][/path][?query]; host is the host a browser
\* connects to when it opens the text
Urls ==
    { [text |-> <<scheme>> \o userinfo \o <<host>> \o rest,
       scheme |-> scheme, host |-> Some(to_lowercase(host))] :
          scheme \in SchemeTokens, userinfo \in UserinfoTexts,
          host \in HostTokens, rest \in AfterHostTexts }
    \cup { [text |-> <<>>, scheme |-> "", host |-> None],
           [text |-> <<" ">>, scheme |-> "", host |-> None],
           [text |-> <<" ", "https://", "example.com", " ">>,
            scheme |-> "https://", host |-> Some("example.com")] }

\* the URLs without userinfo, port, path and query
PlainUrls == {u \in Urls : Len(u.text) <= 2}

\* validate_url applied to one URL
ValidateUrl ==
    /\ proc.cmd = "none"
    /\ \E allowed_domains \in AllowedDomainsConfigs, url \in Urls :
          LET tool == new_with_backend(allowed_domains, "agent_browser")
          IN proc' = [cmd |-> "validate_url",
                      args |-> [allowed_domains |-> tool.allowed_domains, url |-> url],
                      result |-> validate_url(tool.allowed_domains, url.text)]
    /\ UNCHANGED <<selection_file, autonomy, estop_file, security_config, auth_store, oauth_io, estop_procs>>

\* one `open` call of the browser tool
BrowserOpen ==
    /\ proc.cmd = "none"
    /\ \E allowed_domains \in AllowedDomainsConfigs, backend \in BackendConfigs,
          env \in BrowserEnvs, url \in PlainUrls :
          LET tool == new_with_backend(allowed_domains, backend)
          IN proc' = [cmd |-> "browser_open",
                      args |-> [allowed_domains |-> tool.allowed_domains,
                                backend |-> backend, env |-> env, url |-> url],
                      result |-> execute_open(tool, env, url.text)]
    /\ UNCHANGED <<selection_file, autonomy, estop_file, security_config, auth_store, oauth_io, estop_procs>>

\* ------------------------------------------------------------------------
\* The browser tool called repeatedly by one agent process (browser.rs
\* 647-839, 487-515, 860-1174). The process keeps the tool, its security
\* policy with the action tracker, and the rust-native session state.
\* ------------------------------------------------------------------------

MaxCalls == 3

\* SecurityPolicy::can_act
can_act(security) == security.level # "read_only"

\* SecurityPolicy::record_action: the action is recorded, then the count of
\* the window is compared with max_actions_per_hour
record_action(security) ==
    LET count == security.actions + 1
    IN [security |-> [security EXCEPT !.actions = count],
        allowed |-> count <= security.max_actions_per_hour]

\* NativeBrowserState::default
NativeBrowserStateDefault == [browser |-> None, tab |-> None]

\* NativeBrowserState::active_tab
active_tab(state) ==
    IF IsSome(state.tab) THEN Succeeded(Unwrap(state.tab))
    ELSE Failed("No active native browser session")

ensure_session_keeps_browser(state, chrome, id) ==
    IF state.tab = None
    THEN IF ~chrome.launch
         THEN [state |-> state,
               tab |-> Failed("Failed to initialize rust-native browser backend")]
         ELSE IF ~chrome.new_tab
         THEN [state |-> [state EXCEPT !.browser = Some(id)],
               tab |-> Failed("Failed to create browser tab")]
         ELSE [state |-> [browser |-> Some(id), tab |-> Some(id)],
               tab |-> Succeeded(id)]
    ELSE [state |-> state, tab |-> active_tab(state)]

\* NativeBrowserState::ensure_session; chrome tells whether Browser::new and
\* new_tab succeed, id names the browser a launch would start
ensure_session(state, chrome, id) ==
    IF state.tab = None
    THEN IF ~chrome.launch
         THEN [state |-> state,
               tab |-> Failed("Failed to initialize rust-native browser backend")]
         ELSE IF ~chrome.new_tab
         THEN [state |-> state, tab |-> Failed("Failed to create browser tab")]
         ELSE [state |-> [browser |-> Some(id), tab |-> Some(id)],
               tab |-> Succeeded(id)]
    ELSE [state |-> state, tab |-> active_tab(state)]

NativeOutcome(state, result, tab_used) ==
    [state |-> state, result |-> result, tab_used |-> tab_used]

\* NativeBrowserState::execute_action; tab_used is the tab the action
\* operated on, chrome.tab_op whether that operation succeeded
NativeBrowserState_execute_action(state, action, chrome, id) ==
    IF action = "open"
    THEN LET session == ensure_session(state, chrome, id)
         IN IF ~session.tab.ok
            THEN NativeOutcome(session.state, session.tab, None)
            ELSE IF ~chrome.tab_op
            THEN NativeOutcome(session.state, Failed("Failed to open URL"),
                               Some(session.tab.value))
            ELSE NativeOutcome(session.state, Succeeded("open"),
                               Some(session.tab.value))
    ELSE IF action = "close"
    THEN NativeOutcome(NativeBrowserStateDefault, Succeeded("close"), None)
    ELSE IF ~active_tab(state).ok
    THEN NativeOutcome(state, active_tab(state), None)
    ELSE IF ~chrome.tab_op
    THEN NativeOutcome(state, Failed("tab operation failed"),
                       Some(active_tab(state).value))
    ELSE NativeOutcome(state, Succeeded(action), Some(active_tab(state).value))

\* the actions Tool::execute parses, and the parameters each one requires
BrowserActions == {"open", "snapshot", "click", "get_title", "close"}

RequiresParameter(action) == action \in {"open", "click"}

ToolOutcome(security, native_state, returned, error, calls, resolved, dispatched, tab_used) ==
    [security |-> security, native_state |-> native_state, returned |-> returned,
     error |-> error, record_action_calls |-> calls, resolved |-> resolved,
     dispatched |-> dispatched, tab_used |-> tab_used]

\* BrowserTool::execute_action: the match on the resolved backend
execute_action(tool, security, native_state, backend, args, chrome, id) ==
    IF backend = "AgentBrowser"
    THEN IF args.action = Some("open") /\ ~validate_url(tool.allowed_domains, args.url).ok
         THEN ToolOutcome(security, native_state, "Err",
                          Some(validate_url(tool.allowed_domains, args.url).value),
                          1, Some(backend), args.action, None)
         ELSE IF ~chrome.tab_op
         THEN ToolOutcome(security, native_state, "Ok(failure)",
                          Some("agent-browser error"), 1, Some(backend),
                          args.action, Some("agent-browser"))
         ELSE ToolOutcome(security, native_state, "Ok(success)", None, 1,
                          Some(backend), args.action, Some("agent-browser"))
    ELSE LET native == NativeBrowserState_execute_action(native_state, Unwrap(args.action), chrome, id)
         IN IF ~native.result.ok
            THEN ToolOutcome(security, native.state, "Err", Some(native.result.value),
                             1, Some(backend), args.action, native.tab_used)
            ELSE ToolOutcome(security, native.state, "Ok(success)", None, 1,
                             Some(backend), args.action, native.tab_used)

security_checks_record_first(security) ==
    LET recorded == record_action(security)
    IN IF ~can_act(security)
       THEN [security |-> recorded.security, calls |-> 1,
             blocked |-> Some("Action blocked: autonomy is read-only")]
       ELSE IF ~recorded.allowed
       THEN [security |-> recorded.security, calls |-> 1,
             blocked |-> Some("Action blocked: rate limit exceeded")]
       ELSE [security |-> recorded.security, calls |-> 1, blocked |-> None]

\* the security checks at the head of Tool::execute: can_act, then
\* record_action; calls counts the calls of record_action
security_checks(security) ==
    IF ~can_act(security)
    THEN [security |-> security, calls |-> 0,
          blocked |-> Some("Action blocked: autonomy is read-only")]
    ELSE LET recorded == record_action(security)
         IN IF ~recorded.allowed
            THEN [security |-> recorded.security, calls |-> 1,
                  blocked |-> Some("Action blocked: rate limit exceeded")]
            ELSE [security |-> recorded.security, calls |-> 1, blocked |-> None]

\* Tool::execute of BrowserTool
execute(tool, env, security, native_state, args, chrome, id) ==
    LET checked == security_checks(security)
        backend == resolve_backend(tool.backend, env)
    IN IF IsSome(checked.blocked)
       THEN ToolOutcome(checked.security, native_state, "Ok(failure)",
                        checked.blocked, checked.calls, None, None, None)
       ELSE IF ~backend.ok
       THEN ToolOutcome(checked.security, native_state, "Ok(failure)",
                        Some(backend.value), 1, None, None, None)
       ELSE IF args.action = None
       THEN ToolOutcome(checked.security, native_state, "Err",
                        Some("Missing 'action' parameter"), 1,
                        Some(backend.value), None, None)
       ELSE IF Unwrap(args.action) \notin BrowserActions
       THEN ToolOutcome(checked.security, native_state, "Ok(failure)",
                        Some("Unknown action"), 1, Some(backend.value), None, None)
       ELSE IF RequiresParameter(Unwrap(args.action)) /\ ~args.has_parameters
       THEN ToolOutcome(checked.security, native_state, "Err",
                        Some("Missing parameter"), 1, Some(backend.value),
                        None, None)
       ELSE execute_action(tool, checked.security, native_state,
                           backend.value, args, chrome, id)

\* SecurityPolicy of the agent: autonomy level, ceiling, empty tracker
SecurityPolicies ==
    [level : {"read_only", "supervised"}, max_actions_per_hour : 0..MaxCalls,
     actions : {0}]

BrowserToolEnvs ==
    [agent_browser_available : BOOLEAN, rust_native_compiled : BOOLEAN,
     rust_native_available : BOOLEAN]

ToolArgs(action, has_parameters, url) ==
    [action |-> action, has_parameters |-> has_parameters, url |-> url]

\* the JSON arguments of one tool call: no action, an unknown action, the
\* actions without required parameters, click with and without its selector,
\* open without url, with an allowed and with another url
BrowserToolArgs ==
    {ToolArgs(None, FALSE, <<>>), ToolArgs(Some("bogus"), FALSE, <<>>),
     ToolArgs(Some("click"), FALSE, <<>>), ToolArgs(Some("open"), FALSE, <<>>)}
    \cup {ToolArgs(Some(a), TRUE, <<>>) : a \in BrowserActions \ {"open"}}
    \cup {ToolArgs(Some("open"), TRUE, url) :
              url \in {<<"https://", "example.com">>, <<"https://", "other.com">>}}

ChromeOutcomes == [launch : BOOLEAN, new_tab : BOOLEAN, tab_op : BOOLEAN]

\* the agent builds the browser tool
BrowserToolNew ==
    /\ proc.cmd = "none"
    /\ \E backend \in BackendConfigs, env \in BrowserToolEnvs,
          security \in SecurityPolicies :
          proc' = [cmd |-> "browser_tool",
                   tool |-> new_with_backend(<<"example.com">>, backend),
                   env |-> env, security |-> security,
                   native_state |-> NativeBrowserStateDefault,
                   calls |-> 0, last |-> None]
    /\ UNCHANGED <<selection_file, autonomy, estop_file, security_config, auth_store, oauth_io, estop_procs>>

\* one call of Tool::execute
BrowserExecute ==
    /\ proc.cmd = "browser_tool"
    /\ proc.calls < MaxCalls
    /\ \E args \in BrowserToolArgs, chrome \in ChromeOutcomes :
          LET out == execute(proc.tool, proc.env, proc.security, proc.native_state,
                             args, chrome, proc.calls + 1)
          IN proc' = [proc EXCEPT !.security = out.security,
                                  !.native_state = out.native_state,
                                  !.calls = @ + 1,
                                  !.last = Some([args |-> args,
                                                 before_security |-> proc.security,
                                                 before_native |-> proc.native_state,
                                                 out |-> out])]
    /\ UNCHANGED <<selection_file, autonomy, estop_file, security_config, auth_store, oauth_io, estop_procs>>

\* ------------------------------------------------------------------------
\* Pending OAuth login and the auth commands (main.rs 3530-3641, 3687-4086).
\* auth_store is the auth state directory: the pending-login file of each
\* provider and the stored auth profiles, with config.secrets.encrypt.
\* ------------------------------------------------------------------------

\* seconds `auth login` waits for the loopback callback
LoopbackDeadlineSecs == 180

PendingProviders == {"openai", "gemini"}

\* --provider values; anthropic has no OAuth login
AuthProviderArgs == {"openai-codex", "gemini", "anthropic"}

AuthProfileArgs == {"default", "work"}

\* the provider name the pending file is stored under
pending_provider(provider) == IF provider = "openai-codex" THEN "openai" ELSE provider

\* security::secrets::SecretStore::encrypt
SecretStore_encrypt(enabled, plaintext, nonce) ==
    IF enabled THEN [scheme |-> "enc2", nonce |-> nonce, text |-> plaintext]
    ELSE [scheme |-> "plain", nonce |-> 0, text |-> plaintext]

\* security::secrets::SecretStore::decrypt
SecretStore_decrypt(cipher) == cipher.text

AbsentFile == [kind |-> "absent"]

\* a file of zero bytes
EmptyFile == [kind |-> "empty"]

PendingOAuthLogin(provider, profile, code_verifier, state, created_at) ==
    [provider |-> provider, profile |-> profile, code_verifier |-> code_verifier,
     state |-> state, created_at |-> created_at]

PendingOAuthLoginFile(provider, profile, code_verifier, encrypted_code_verifier, state, created_at) ==
    [kind |-> "json", provider |-> provider, profile |-> profile,
     code_verifier |-> code_verifier,
     encrypted_code_verifier |-> encrypted_code_verifier,
     state |-> state, created_at |-> created_at]

\* save_pending_oauth_login writing the verifier in the legacy plaintext field
save_pending_oauth_login_plaintext(store, pending, nonce) ==
    [store EXCEPT !.pending[pending.provider] =
        PendingOAuthLoginFile(Some(pending.provider), pending.profile,
                              Some(pending.code_verifier), None,
                              pending.state, pending.created_at)]

save_pending_oauth_login(store, pending, nonce) ==
    [store EXCEPT !.pending[pending.provider] =
        PendingOAuthLoginFile(Some(pending.provider), pending.profile, None,
                              Some(SecretStore_encrypt(store.encrypt,
                                                       pending.code_verifier, nonce)),
                              pending.state, pending.created_at)]

load_pending_oauth_login(store, provider) ==
    LET persisted == store.pending[provider]
    IN IF persisted.kind \in {"absent", "empty"} THEN Succeeded(None)
       ELSE IF ~IsSome(persisted.encrypted_code_verifier) /\ ~IsSome(persisted.code_verifier)
       THEN Failed("Pending login is missing code verifier")
       ELSE Succeeded(Some(PendingOAuthLogin(
                IF IsSome(persisted.provider) THEN Unwrap(persisted.provider) ELSE provider,
                persisted.profile,
                IF IsSome(persisted.encrypted_code_verifier)
                THEN SecretStore_decrypt(Unwrap(persisted.encrypted_code_verifier))
                ELSE Unwrap(persisted.code_verifier),
                persisted.state, persisted.created_at)))

\* truncate, then unlink
clear_pending_oauth_login(store, provider) ==
    [store EXCEPT !.pending[provider] = AbsentFile]

\* AuthService::store_gemini_tokens / store_openai_tokens
store_tokens(store, provider, profile) ==
    [store EXCEPT !.profiles = @ \cup {<<provider, profile>>}]

\* AuthService::remove_profile
remove_profile(store, provider, profile) ==
    [store EXCEPT !.profiles = @ \ {<<provider, profile>>}]

\* receive_loopback_code: the code when the callback arrives in time
receive_loopback_code(arrival, deadline_secs) ==
    IF IsSome(arrival) /\ Unwrap(arrival) < deadline_secs
    THEN Succeeded("code")
    ELSE Failed("timed out waiting for OAuth callback")

AuthResult(exit, store, stdout, stderr, loopback, saved) ==
    [exit |-> exit, store |-> store, stdout |-> stdout, stderr |-> stderr,
     builder_ran |-> FALSE, loopback |-> loopback, saved |-> saved]

\* Login, device-code flow once start_device_code_flow returned Ok
auth_login_device_code(store, a) ==
    IF a.device = "poll_failed"
    THEN AuthResult("fail", store, <<"text:device_code_started">>,
                    <<"error:device_code_poll">>, "not_used", None)
    ELSE AuthResult("ok",
                    IF a.provider = "openai-codex"
                    THEN clear_pending_oauth_login(
                             store_tokens(store, a.provider, a.profile), "openai")
                    ELSE store_tokens(store, a.provider, a.profile),
                    <<"text:device_code_started", "text:saved_profile">>, <<>>,
                    "not_used", None)

\* Login, browser flow after the pending login is saved and the URL printed
auth_login_loopback(saved_store, pending, a, printed) ==
    IF ~receive_loopback_code(a.callback_arrival, LoopbackDeadlineSecs).ok
    THEN AuthResult("ok", saved_store,
                    printed \o <<"text:callback_capture_failed", "text:run_paste_redirect">>,
                    <<>>, "timeout", Some(pending))
    ELSE IF ~a.exchange_ok
    THEN AuthResult("fail",
                    IF a.provider = "gemini"
                    THEN clear_pending_oauth_login(saved_store, "gemini")
                    ELSE saved_store,
                    printed, <<"error:token_exchange">>, "code", Some(pending))
    ELSE AuthResult("ok",
                    clear_pending_oauth_login(
                        store_tokens(saved_store, a.provider, a.profile),
                        pending.provider),
                    printed \o <<"text:saved_profile">>, <<>>, "code", Some(pending))

\* handle_auth_command, AuthCommands::Login
handle_auth_login(store, a) ==
    IF a.provider \notin {"gemini", "openai-codex"}
    THEN AuthResult("fail", store, <<>>, <<"error:unsupported_provider">>, "not_used", None)
    ELSE IF a.device \in {"ok", "poll_failed"}
    THEN auth_login_device_code(store, a)
    ELSE auth_login_loopback(
             save_pending_oauth_login(
                 store,
                 PendingOAuthLogin(pending_provider(a.provider), a.profile,
                                   a.pkce.code_verifier, a.pkce.state, a.created_at),
                 a.nonce),
             PendingOAuthLogin(pending_provider(a.provider), a.profile,
                               a.pkce.code_verifier, a.pkce.state, a.created_at),
             a,
             (IF a.device = "unavailable" THEN <<"text:device_code_unavailable">> ELSE <<>>)
                 \o <<"text:authorize_url">>)

handle_auth_paste_redirect_any_profile(store, a) ==
    IF a.provider \notin {"gemini", "openai-codex"}
    THEN AuthResult("fail", store, <<>>, <<"error:unsupported_provider">>, "not_used", None)
    ELSE LET loaded == load_pending_oauth_login(store, pending_provider(a.provider))
         IN IF ~loaded.ok
            THEN AuthResult("fail", store, <<>>, <<"error:pending_unreadable">>,
                            "not_used", None)
            ELSE IF ~IsSome(loaded.value)
            THEN AuthResult("fail", store, <<>>, <<"error:no_pending_login">>,
                            "not_used", None)
            ELSE IF ~a.parse_ok
            THEN AuthResult("fail", store, <<>>, <<"error:redirect_input">>,
                            "not_used", None)
            ELSE IF ~a.exchange_ok
            THEN AuthResult("fail", store, <<>>, <<"error:token_exchange">>,
                            "not_used", None)
            ELSE AuthResult("ok",
                            clear_pending_oauth_login(
                                store_tokens(store, a.provider, a.profile),
                                pending_provider(a.provider)),
                            <<"text:saved_profile">>, <<>>, "not_used", None)

\* handle_auth_command, AuthCommands::PasteRedirect
handle_auth_paste_redirect(store, a) ==
    IF a.provider \notin {"gemini", "openai-codex"}
    THEN AuthResult("fail", store, <<>>, <<"error:unsupported_provider">>, "not_used", None)
    ELSE LET loaded == load_pending_oauth_login(store, pending_provider(a.provider))
         IN IF ~loaded.ok
            THEN AuthResult("fail", store, <<>>, <<"error:pending_unreadable">>,
                            "not_used", None)
            ELSE IF ~IsSome(loaded.value)
            THEN AuthResult("fail", store, <<>>, <<"error:no_pending_login">>,
                            "not_used", None)
            ELSE IF Unwrap(loaded.value).profile # a.profile
            THEN AuthResult("fail", store, <<>>, <<"error:profile_mismatch">>,
                            "not_used", None)
            ELSE IF ~a.parse_ok
            THEN AuthResult("fail", store, <<>>, <<"error:redirect_input">>,
                            "not_used", None)
            ELSE IF ~a.exchange_ok
            THEN AuthResult("fail", store, <<>>, <<"error:token_exchange">>,
                            "not_used", None)
            ELSE AuthResult("ok",
                            clear_pending_oauth_login(
                                store_tokens(store, a.provider, a.profile),
                                pending_provider(a.provider)),
                            <<"text:saved_profile">>, <<>>, "not_used", None)

\* handle_auth_command, AuthCommands::Logout
handle_auth_logout(store, a) ==
    AuthResult("ok", remove_profile(store, a.provider, a.profile),
               IF <<a.provider, a.profile>> \in store.profiles
               THEN <<"text:removed_profile">> ELSE <<"text:profile_not_found">>,
               <<>>, "not_used", None)

\* generate_pkce_state
PkceStates == [code_verifier : {"verifier-a", "verifier-b"}, state : {"state-a"}]

\* device-code flow: not requested, unavailable, polled to tokens, poll failed
DeviceCodeOutcomes == {"not_requested", "unavailable", "ok", "poll_failed"}

\* when the loopback callback arrives, in seconds, if it does
CallbackArrivals == {None, Some(10), Some(200)}

AuthFinished(cmd, a, before, r) ==
    [cmd |-> cmd, args |-> a, before_store |-> before, exit |-> r.exit,
     stdout |-> r.stdout, stderr |-> r.stderr, builder_ran |-> FALSE, result |-> r]

AuthLogin ==
    /\ proc.cmd = "none"
    /\ \E provider \in AuthProviderArgs, profile \in AuthProfileArgs,
          device \in DeviceCodeOutcomes, pkce \in PkceStates,
          callback_arrival \in CallbackArrivals, exchange_ok \in BOOLEAN :
          LET a == [provider |-> provider, profile |-> profile, device |-> device,
                    pkce |-> pkce, created_at |-> "now", nonce |-> 1,
                    callback_arrival |-> callback_arrival, exchange_ok |-> exchange_ok]
              r == handle_auth_login(auth_store, a)
          IN /\ (provider = "anthropic" => profile = "default" /\ device = "not_requested")
             /\ (exchange_ok \/ callback_arrival = Some(10))
             /\ auth_store' = r.store
             /\ proc' = AuthFinished("auth_login", a, auth_store, r)
    /\ UNCHANGED <<selection_file, autonomy, estop_file, security_config, oauth_io, estop_procs>>

AuthPasteRedirect ==
    /\ proc.cmd = "none"
    /\ \E provider \in AuthProviderArgs, profile \in AuthProfileArgs,
          parse_ok \in BOOLEAN, exchange_ok \in BOOLEAN :
          LET a == [provider |-> provider, profile |-> profile,
                    parse_ok |-> parse_ok, exchange_ok |-> exchange_ok]
              r == handle_auth_paste_redirect(auth_store, a)
          IN /\ auth_store' = r.store
             /\ proc' = AuthFinished("auth_paste_redirect", a, auth_store, r)
    /\ UNCHANGED <<selection_file, autonomy, estop_file, security_config, oauth_io, estop_procs>>

AuthLogout ==
    /\ proc.cmd = "none"
    /\ \E provider \in AuthProviderArgs, profile \in AuthProfileArgs :
          LET a == [provider |-> provider, profile |-> profile]
              r == handle_auth_logout(auth_store, a)
          IN /\ auth_store' = r.store
             /\ proc' = AuthFinished("auth_logout", a, auth_store, r)
    /\ UNCHANGED <<selection_file, autonomy, estop_file, security_config, oauth_io, estop_procs>>

\* save_pending_oauth_login applied to a record loaded from the pending file
\* of a provider
ResavePendingOAuthLogin ==
    /\ proc.cmd = "none"
    /\ \E provider \in PendingProviders :
          LET loaded == load_pending_oauth_login(auth_store, provider)
          IN /\ loaded.ok /\ IsSome(loaded.value)
             /\ auth_store' = save_pending_oauth_login(auth_store, Unwrap(loaded.value), 2)
             /\ proc' = [cmd |-> "save_pending_oauth_login",
                         args |-> [pending |-> Unwrap(loaded.value)],
                         before_store |-> auth_store,
                         result |-> [saved |-> loaded.value, loopback |-> "not_used"]]
    /\ UNCHANGED <<selection_file, autonomy, estop_file, security_config, oauth_io, estop_procs>>

\* a pending file written by a release that stored the verifier in plaintext
LegacyPendingFile ==
    PendingOAuthLoginFile(None, "default", Some("verifier-legacy"), None,
                          "state-legacy", "earlier")

AuthStoreEmpty ==
    [encrypt |-> TRUE, pending |-> [p \in PendingProviders |-> AbsentFile], profiles |-> {}]

\* ------------------------------------------------------------------------
\* save_pending_oauth_login step by step (main.rs 3579-3605), run by
\* concurrent processes next to a reader (load_pending_oauth_login, 3607-3615).
\* oauth_io is the auth state directory at file-system level: directory
\* entries, inodes, each saver's position and the reader's open handle.
\* ------------------------------------------------------------------------

\* process ids of the concurrent savers
SaverPids == {1, 2}

PendingPath == "auth-gemini-pending.json"

\* path.with_extension("tmp.<pid>.<nanos>")
TmpPath(pid) == IF pid = 1 THEN "auth-gemini-pending.tmp.1" ELSE "auth-gemini-pending.tmp.2"

DirNames == {PendingPath} \cup {TmpPath(pid) : pid \in SaverPids}

\* inode "prev" holds the file of an earlier save; a saver creates inode pid
InodeIds == {"prev", "by-1", "by-2"}

NewInode(pid) == IF pid = 1 THEN "by-1" ELSE "by-2"

\* a file whose bytes are the complete JSON of the given writer
CompleteFile(writer, mode) == [writer |-> writer, written |-> "complete", mode |-> mode]

FreeInode == [writer |-> "nobody", written |-> "empty", mode |-> "none"]

\* the file save writes through: the path itself, no temporary sibling
save_write_target_in_place(pid) == PendingPath

\* the file save writes through before the rename
save_write_target(pid) == TmpPath(pid)

\* std::fs::write, first part: create the file (mode from the umask) or
\* truncate the existing one
fs_create_or_truncate(io, name, pid) ==
    IF IsSome(io.names[name])
    THEN [io EXCEPT !.inodes[Unwrap(io.names[name])].written = "empty",
                    !.inodes[Unwrap(io.names[name])].writer = NewInode(pid)]
    ELSE [io EXCEPT !.names[name] = Some(NewInode(pid)),
                    !.inodes[NewInode(pid)] =
                        [writer |-> NewInode(pid), written |-> "empty", mode |-> "0644"]]

\* std::fs::write, the bytes arrive in two parts
fs_write_more(io, name) ==
    [io EXCEPT !.inodes[Unwrap(io.names[name])].written =
        IF @ = "empty" THEN "partial" ELSE "complete"]

\* set_owner_only_permissions (unix); on a path that is gone it returns an
\* error and changes nothing
set_owner_only_permissions(io, name) ==
    IF IsSome(io.names[name])
    THEN [io EXCEPT !.inodes[Unwrap(io.names[name])].mode = "0600"]
    ELSE io

\* std::fs::rename: the entry `to` names the inode of `from`, atomically
fs_rename(io, from, to) ==
    IF from = to THEN io
    ELSE [io EXCEPT !.names[to] = io.names[from], !.names[from] = None]

SaverSteps == <<"create", "write", "write_rest", "chmod_tmp", "rename", "chmod_path", "returned">>

NextSaverStep(pc) == SaverSteps[(CHOOSE i \in 1..(Len(SaverSteps) - 1) : SaverSteps[i] = pc) + 1]

\* one step of save_pending_oauth_login in process pid
save_step(io, pid) ==
    LET pc == io.pc[pid]
        target == save_write_target(pid)
        after == CASE pc = "create" -> fs_create_or_truncate(io, target, pid)
                   [] pc = "write" -> fs_write_more(io, target)
                   [] pc = "write_rest" -> fs_write_more(io, target)
                   [] pc = "chmod_tmp" -> set_owner_only_permissions(io, target)
                   [] pc = "rename" -> fs_rename(io, target, PendingPath)
                   [] pc = "chmod_path" -> set_owner_only_permissions(io, PendingPath)
    IN [after EXCEPT !.pc[pid] = NextSaverStep(pc)]

SaveStep ==
    /\ proc.cmd = "none"
    /\ \E pid \in SaverPids :
          /\ oauth_io.pc[pid] \notin {"not_started", "returned"}
          /\ oauth_io' = save_step(oauth_io, pid)
    /\ UNCHANGED <<selection_file, autonomy, estop_file, security_config, auth_store,
                   estop_procs, proc>>

\* the reader opens the pending path: !path.exists() or a handle on the inode
ReaderOpen ==
    /\ proc.cmd = "none"
    /\ oauth_io.reader.pc = "idle"
    /\ oauth_io' = [oauth_io EXCEPT !.reader =
           IF IsSome(oauth_io.names[PendingPath])
           THEN [pc |-> "opened", handle |-> oauth_io.names[PendingPath], seen |-> @.seen]
           ELSE [pc |-> "idle", handle |-> None, seen |-> "absent"]]
    /\ UNCHANGED <<selection_file, autonomy, estop_file, security_config, auth_store,
                   estop_procs, proc>>

\* std::fs::read on the open handle
ReaderRead ==
    /\ proc.cmd = "none"
    /\ oauth_io.reader.pc = "opened"
    /\ oauth_io' = [oauth_io EXCEPT !.reader =
           [pc |-> "idle", handle |-> None,
            seen |-> oauth_io.inodes[Unwrap(oauth_io.reader.handle)].written]]
    /\ UNCHANGED <<selection_file, autonomy, estop_file, security_config, auth_store,
                   estop_procs, proc>>

\* no save in progress: the directory as earlier runs left it
OauthIoIdle ==
    [names |-> [n \in DirNames |-> None],
     inodes |-> [i \in InodeIds |-> FreeInode],
     pc |-> [pid \in SaverPids |-> "not_started"],
     reader |-> [pc |-> "idle", handle |-> None, seen |-> "nothing"],
     loader |-> [pc |-> "not_started", handle |-> None, result |-> "nothing"],
     clearer |-> [pc |-> "not_started", handle |-> None]]

\* one step of load_pending_oauth_login (main.rs 3607-3615): path.exists(),
\* then std::fs::read, which opens the path and reads the bytes
load_step(io) ==
    LET pc == io.loader.pc
        entry == io.names[PendingPath]
    IN CASE pc = "exists" ->
              IF IsSome(entry) THEN [io EXCEPT !.loader.pc = "open"]
              ELSE [io EXCEPT !.loader.pc = "returned", !.loader.result = "Ok(None)"]
         [] pc = "open" ->
              IF IsSome(entry) THEN [io EXCEPT !.loader.pc = "read", !.loader.handle = entry]
              ELSE [io EXCEPT !.loader.pc = "returned", !.loader.result = "Err(NotFound)"]
         [] pc = "read" ->
              [io EXCEPT !.loader.pc = "returned", !.loader.handle = None,
                         !.loader.result =
                             CASE io.inodes[Unwrap(io.loader.handle)].written = "empty" ->
                                    "Ok(None)"
                               [] io.inodes[Unwrap(io.loader.handle)].written = "complete" ->
                                    "Ok(Some(pending))"
                               [] io.inodes[Unwrap(io.loader.handle)].written = "partial" ->
                                    "Err(Json)"]

\* one step of clear_pending_oauth_login (main.rs 3634-3641): open for
\* writing, set_len(0), remove_file; every error is ignored
clear_step(io) ==
    LET pc == io.clearer.pc
        entry == io.names[PendingPath]
    IN CASE pc = "open" ->
              IF IsSome(entry) THEN [io EXCEPT !.clearer.pc = "set_len", !.clearer.handle = entry]
              ELSE [io EXCEPT !.clearer.pc = "remove_file"]
         [] pc = "set_len" ->
              [io EXCEPT !.clearer.pc = "remove_file", !.clearer.handle = None,
                         !.inodes[Unwrap(io.clearer.handle)].written = "empty"]
         [] pc = "remove_file" ->
              [io EXCEPT !.clearer.pc = "returned", !.names[PendingPath] = None]

LoadStep ==
    /\ proc.cmd = "none"
    /\ oauth_io.loader.pc \notin {"not_started", "returned"}
    /\ oauth_io' = load_step(oauth_io)
    /\ UNCHANGED <<selection_file, autonomy, estop_file, security_config, auth_store,
                   estop_procs, proc>>

ClearStep ==
    /\ proc.cmd = "none"
    /\ oauth_io.clearer.pc \notin {"not_started", "returned"}
    /\ oauth_io' = clear_step(oauth_io)
    /\ UNCHANGED <<selection_file, autonomy, estop_file, security_config, auth_store,
                   estop_procs, proc>>

\* ------------------------------------------------------------------------
\* Two estop processes on the same config directory (main.rs 3343-3411)
\* ------------------------------------------------------------------------

EstopPids == {1, 2}

\* a process that has not run EstopManager::load yet
EstopProcNotStarted == [pc |-> "not_started", args |-> None, manager |-> EstopDefault]

EstopProcsIdle == [pid \in EstopPids |-> EstopProcNotStarted]

\* the command lines `estop --level L [--domain ..] [--tool ..]` that engage
EstopEngageArgs ==
    {a \in [level : {Some(l) : l \in EstopLevelArgs}, domains : SUBSET Domains,
            tools : SUBSET Tools] :
        build_engage_level(a.level, a.domains, a.tools).ok}

\* handle_estop_command up to EstopManager::load: the manager holds the
\* state read from estop.json
EstopRaceLoad ==
    /\ \E pid \in EstopPids, a \in EstopEngageArgs :
          /\ estop_procs[pid].pc = "not_started"
          /\ security_config.estop_enabled
          /\ estop_procs' = [estop_procs EXCEPT
                                ![pid] = [pc |-> "loaded", args |-> Some(a),
                                          manager |-> estop_file]]
    /\ UNCHANGED <<selection_file, autonomy, estop_file, security_config, auth_store,
                   oauth_io, proc>>

\* manager.engage(engage_level): the level is applied to the manager's own
\* state, which is persisted whole (atomic rename)
EstopRaceEngage ==
    /\ \E pid \in EstopPids :
          /\ estop_procs[pid].pc = "loaded"
          /\ LET r == handle_estop_engage(security_config, estop_procs[pid].manager,
                                          Unwrap(estop_procs[pid].args))
             IN /\ estop_file' = r.estop
                /\ estop_procs' = [estop_procs EXCEPT
                                      ![pid] = [@ EXCEPT !.pc = "finished",
                                                         !.manager = r.estop]]
    /\ UNCHANGED <<selection_file, autonomy, security_config, auth_store, oauth_io, proc>>

\* ------------------------------------------------------------------------
\* Initial state and specifications
\* ------------------------------------------------------------------------

DefaultSecurityConfig ==
    [otp_enabled |-> FALSE, estop_enabled |-> TRUE, require_otp_to_resume |-> FALSE]

Files ==
    /\ selection_file = None
    /\ autonomy = autonomy_config_for_security_profile_id("strict")
    /\ estop_file = EstopDefault
    /\ auth_store = AuthStoreEmpty
    /\ oauth_io = OauthIoIdle
    /\ estop_procs = EstopProcsIdle
    /\ proc = Idle

Init ==
    /\ Files
    /\ security_config = DefaultSecurityConfig

\* [security.otp] enabled or not
InitOtp ==
    /\ Files
    /\ security_config \in [otp_enabled : BOOLEAN, estop_enabled : {TRUE},
                            require_otp_to_resume : {FALSE}]

Next ==
    \/ PresetApply
    \/ PresetImport
    \/ PresetIntent
    \/ PresetRebuild
    \/ SecurityProfileSet
    \/ SecurityProfileRecommend
    \/ OnboardQuick
    \/ OnboardInteractive
    \/ Exit

Spec == Init /\ [][Next]_vars

NextPreset ==
    \/ PresetApply
    \/ PresetImport
    \/ PresetIntent
    \/ PresetRebuild
    \/ Exit

SpecPreset == Init /\ [][NextPreset]_vars

NextPresetOtp == NextPreset

\* the preset commands with [security.otp] enabled or not
SpecPresetOtp == InitOtp /\ [][NextPresetOtp]_vars

NextSecurity ==
    \/ SecurityProfileSet
    \/ Exit

SpecSecurity == InitOtp /\ [][NextSecurity]_vars

\* every [security.estop] and [security.otp] setting
InitEstop ==
    /\ Files
    /\ security_config \in [otp_enabled : BOOLEAN, estop_enabled : BOOLEAN,
                            require_otp_to_resume : BOOLEAN]

NextEstop ==
    \/ EstopEngage
    \/ EstopResume
    \/ EstopStatus
    \/ Exit

SpecEstop == InitEstop /\ [][NextEstop]_vars

NextOnboard ==
    \/ OnboardQuick
    \/ OnboardInteractive
    \/ Exit

SpecOnboard == Init /\ [][NextOnboard]_vars

\* the commands that emit a report with consent fields
NextReports ==
    \/ PresetApply
    \/ PresetImport
    \/ PresetIntent
    \/ SecurityProfileSet
    \/ SecurityProfileRecommend
    \/ OnboardQuick
    \/ Exit

SpecReports == Init /\ [][NextReports]_vars

NextBrowser ==
    \/ ValidateUrl
    \/ BrowserOpen
    \/ Exit

SpecBrowser == Init /\ [][NextBrowser]_vars

NextBrowserTool ==
    \/ BrowserToolNew
    \/ BrowserExecute
    \/ Exit

SpecBrowserTool == Init /\ [][NextBrowserTool]_vars

\* any secrets.encrypt setting; each pending file absent, empty or legacy
InitAuth ==
    /\ selection_file = None
    /\ autonomy = autonomy_config_for_security_profile_id("strict")
    /\ estop_file = EstopDefault
    /\ security_config = DefaultSecurityConfig
    /\ auth_store \in [encrypt : BOOLEAN,
                       pending : [PendingProviders ->
                                     {AbsentFile, EmptyFile, LegacyPendingFile}],
                       profiles : {{}}]
    /\ oauth_io = OauthIoIdle
    /\ estop_procs = EstopProcsIdle
    /\ proc = Idle

NextAuth ==
    \/ AuthLogin
    \/ AuthPasteRedirect
    \/ AuthLogout
    \/ ResavePendingOAuthLogin
    \/ Exit

SpecAuth == InitAuth /\ [][NextAuth]_vars

NextExport ==
    \/ PresetApply
    \/ PresetExport
    \/ Exit

SpecExport == Init /\ [][NextExport]_vars

NextCompose ==
    \/ ComposeSelection
    \/ Exit

SpecCompose == Init /\ [][NextCompose]_vars

NextScript ==
    \/ EmitOrchestrationScript
    \/ Exit

SpecScript == Init /\ [][NextScript]_vars

NextOnboardMode ==
    \/ ValidateOnboardCommandMode
    \/ Exit

SpecOnboardMode == Init /\ [][NextOnboardMode]_vars

\* one or two processes about to save, next to a reader; the pending path
\* holds the complete file of an earlier save, or nothing
InitSaveRace ==
    /\ selection_file = None
    /\ autonomy = autonomy_config_for_security_profile_id("strict")
    /\ estop_file = EstopDefault
    /\ security_config = DefaultSecurityConfig
    /\ auth_store = AuthStoreEmpty
    /\ estop_procs = EstopProcsIdle
    /\ proc = Idle
    /\ \E started \in (SUBSET SaverPids) \ {{}}, previous \in BOOLEAN :
          oauth_io = [OauthIoIdle EXCEPT
              !.pc = [pid \in SaverPids |->
                         IF pid \in started THEN "create" ELSE "not_started"],
              !.names[PendingPath] = IF previous THEN Some("prev") ELSE None,
              !.inodes["prev"] = IF previous THEN CompleteFile("prev", "0600")
                                 ELSE FreeInode]

NextSaveRace ==
    \/ SaveStep
    \/ ReaderOpen
    \/ ReaderRead

SpecSaveRace == InitSaveRace /\ [][NextSaveRace]_vars

\* a pending login is on disk; a loader and a clearer run, and a save by
\* another login may be in progress
InitClearRace ==
    /\ selection_file = None
    /\ autonomy = autonomy_config_for_security_profile_id("strict")
    /\ estop_file = EstopDefault
    /\ security_config = DefaultSecurityConfig
    /\ auth_store = AuthStoreEmpty
    /\ estop_procs = EstopProcsIdle
    /\ proc = Idle
    /\ \E saving \in SUBSET {1} :
          oauth_io = [OauthIoIdle EXCEPT
              !.pc = [pid \in SaverPids |->
                         IF pid \in saving THEN "create" ELSE "not_started"],
              !.names[PendingPath] = Some("prev"),
              !.inodes["prev"] = CompleteFile("prev", "0600"),
              !.loader.pc = "exists",
              !.clearer.pc = "open"]

NextClearRace ==
    \/ LoadStep
    \/ ClearStep
    \/ SaveStep

SpecClearRace == InitClearRace /\ [][NextClearRace]_vars

NextEstopRace ==
    \/ EstopRaceLoad
    \/ EstopRaceEngage

SpecEstopRace == Init /\ [][NextEstopRace]_vars

\* ------------------------------------------------------------------------
\* Properties of the finished process
\* ------------------------------------------------------------------------

RiskyPackIds == {p.id : p \in {q \in FEATURE_PACKS : q.requires_confirmation}}

HasRiskyPack(selection) ==
    \E i \in 1..Len(selection.packs) : selection.packs[i] \in RiskyPackIds

\* the process ran preset apply, preset import or preset intent --apply
RanPresetApplication ==
    \/ proc.cmd \in {"preset_apply", "preset_import"}
    \/ proc.cmd = "preset_intent" /\ proc.args.apply

\* the selection the finished preset command computes from its arguments and
\* the selection file it started from
ResultingSelection ==
    CASE proc.cmd = "preset_apply" -> preset_apply_after(proc.before_selection, proc.args)
      [] proc.cmd = "preset_import" ->
           import_selection_from_path(proc.before_selection, proc.args.doc, proc.args.mode)
      [] proc.cmd = "preset_intent" ->
           selection_from_plan(proc.args.plan, proc.before_selection)
      [] OTHER -> None

PersistentStateUntouched ==
    /\ selection_file = proc.before_selection
    /\ autonomy = proc.before_autonomy

\* C1: preset apply, preset import and preset intent --apply, run without
\* --yes-risky and without --dry-run on arguments whose resulting selection
\* holds a pack that requires confirmation, fail and leave the workspace
\* selection file as it was.
C1_RiskyPackGate ==
    ( /\ RanPresetApplication
      /\ IsSome(ResultingSelection)
      /\ HasRiskyPack(Unwrap(ResultingSelection))
      /\ ~proc.args.yes_risky
      /\ ~proc.args.dry_run )
    => /\ proc.exit = "fail"
       /\ selection_file = proc.before_selection

C1_Witness ==
    /\ proc.cmd = "preset_import"
    /\ proc.args.mode = "merge"
    /\ IsSome(proc.before_selection)
    /\ ~HasRiskyPack(Unwrap(proc.before_selection))
    /\ IsSome(ResultingSelection)
    /\ HasRiskyPack(Unwrap(ResultingSelection))
    /\ ~proc.args.yes_risky /\ ~proc.args.dry_run /\ ~proc.args.json
    /\ proc.exit = "fail"
    /\ proc.stderr = <<"error:risky_pack_consent">>
    /\ selection_file = proc.before_selection

\* the process ran a consent-gated command: preset apply, preset import,
\* preset intent --apply or quick onboarding
RanConsentGatedCommand == RanPresetApplication \/ proc.cmd = "onboard"

\* C2: a consent-gated command given --rebuild without --yes-rebuild and
\* without --dry-run exits non-zero and has written neither the selection
\* file nor the stored configuration.
C2_RebuildRefusalWritesNothing ==
    ( /\ RanConsentGatedCommand
      /\ proc.args.rebuild
      /\ ~proc.args.yes_rebuild
      /\ ~proc.args.dry_run )
    => /\ proc.exit = "fail"
       /\ PersistentStateUntouched

RanSecurityProfileSet == proc.cmd = "security_profile_set"

\* C3: security profile set stores the target AutonomyConfig exactly when
\* --dry-run is absent and the risk reasons are empty or --yes-risk is given;
\* the reasons are non-empty exactly when the target profile is not strict or
\* the change turns allow_non_cli_auto_approval from false to true; in every
\* other run the stored configuration is the one the process started from.
C3_SecurityProfileCommit ==
    RanSecurityProfileSet =>
        LET a == proc.args
            current == proc.before_autonomy
            target == proc.result.report.target
            reasons == proc.result.report.risk_consent_reasons
            turns_on == ~current.allow_non_cli_auto_approval
                        /\ target.allow_non_cli_auto_approval
            commits == ~a.dry_run /\ (reasons = <<>> \/ a.yes_risk)
        IN /\ (reasons # <<>>) <=> (a.level # "strict" \/ turns_on)
           /\ proc.result.config_saved <=> commits
           /\ commits => autonomy = target /\ proc.exit = "ok"
           /\ ~commits => autonomy = current

C3_Witness ==
    /\ RanSecurityProfileSet
    /\ proc.args.level = "strict"
    /\ proc.args.non_cli_approval = Some("auto")
    /\ ~proc.before_autonomy.allow_non_cli_auto_approval
    /\ proc.result.report.risk_consent_reasons = <<"non_cli_auto_approval">>
    /\ proc.args.yes_risk /\ ~proc.args.dry_run
    /\ proc.result.config_saved
    /\ autonomy # proc.before_autonomy

CommittedStrict ==
    /\ RanSecurityProfileSet
    /\ proc.result.config_saved
    /\ proc.args.level = "strict"

\* C4 as stated: when the last committed security profile set targeted strict,
\* the stored configuration has workspace_only,
\* require_approval_for_medium_risk and block_high_risk_commands true and
\* allow_non_cli_auto_approval false.
C4_StrictGuardrails ==
    CommittedStrict =>
        /\ autonomy.workspace_only
        /\ autonomy.require_approval_for_medium_risk
        /\ autonomy.block_high_risk_commands
        /\ ~autonomy.allow_non_cli_auto_approval

\* C4 amended: when the last committed security profile set targeted strict,
\* workspace_only, require_approval_for_medium_risk and
\* block_high_risk_commands are true, and allow_non_cli_auto_approval is true
\* exactly when that command was given --non-cli-approval auto.
C4_StrictGuardrailsUnlessAutoRequested ==
    CommittedStrict =>
        /\ autonomy.workspace_only
        /\ autonomy.require_approval_for_medium_risk
        /\ autonomy.block_high_risk_commands
        /\ autonomy.allow_non_cli_auto_approval
             <=> proc.args.non_cli_approval = Some("auto")

C4_Witness ==
    /\ CommittedStrict
    /\ proc.before_autonomy.level = "full"
    /\ proc.before_autonomy.allow_non_cli_auto_approval
    /\ proc.args.non_cli_approval = Some("manual")
    /\ autonomy.workspace_only
    /\ ~autonomy.allow_non_cli_auto_approval

\* C5: preset apply, preset import, preset intent, security profile set and
\* quick onboarding, run with --dry-run, leave the selection file and the
\* stored configuration as they were and do not execute the rebuild command.
C5_DryRunWritesNothing ==
    ( /\ proc.cmd \in {"preset_apply", "preset_import", "preset_intent",
                       "security_profile_set", "onboard"}
      /\ proc.args.dry_run )
    => /\ PersistentStateUntouched
       /\ ~proc.builder_ran

C5_Witness ==
    /\ proc.cmd = "preset_apply"
    /\ proc.args.dry_run /\ proc.args.rebuild /\ proc.args.yes_rebuild
    /\ proc.args.yes_risky /\ ~proc.args.json
    /\ IsSome(ResultingSelection)
    /\ HasRiskyPack(Unwrap(ResultingSelection))
    /\ ResultingSelection # proc.before_selection
    /\ proc.exit = "ok"
    /\ selection_file = proc.before_selection
    /\ ~proc.builder_ran

JsonReports ==
    {"json:preset.apply_dry_run", "json:preset.import_dry_run",
     "json:preset.intent_orchestration", "json:security.profile_change",
     "json:onboard.quick_dry_run"}

\* C6: a successful run whose command requests machine JSON writes exactly
\* one item to stdout, the JSON report; notices go to stderr and log output is
\* suppressed.
C6_MachineJsonStdoutIsOneReport ==
    (proc.cmd # "none" /\ proc.machine_json /\ proc.exit = "ok")
    => /\ Len(proc.stdout) = 1
       /\ proc.stdout[1] \in JsonReports
       /\ proc.logging # "stdout"

\* ------------------------------------------------------------------------
\* Emergency stop properties
\* ------------------------------------------------------------------------

\* the categories: KillAll, Network, Domains(D) and Tools(T) for non-empty D, T
EstopCategories ==
    {[kind |-> "KillAll", items |-> {}], [kind |-> "Network", items |-> {}]}
    \cup {[kind |-> "Domains", items |-> d] : d \in (SUBSET Domains) \ {{}}}
    \cup {[kind |-> "Tools", items |-> t] : t \in (SUBSET Tools) \ {{}}}

\* the `estop` command line that engages category x
EngageArgsFor(x) ==
    [level |-> CASE x.kind = "KillAll" -> Some("kill-all")
                 [] x.kind = "Network" -> Some("network-kill")
                 [] x.kind = "Domains" -> Some("domain-block")
                 [] x.kind = "Tools" -> Some("tool-freeze"),
     domains |-> IF x.kind = "Domains" THEN x.items ELSE {},
     tools |-> IF x.kind = "Tools" THEN x.items ELSE {}]

\* the `estop resume` command line that resumes category x, with a valid OTP
ResumeArgsFor(x) ==
    [network |-> x.kind = "Network",
     domains |-> IF x.kind = "Domains" THEN x.items ELSE {},
     tools |-> IF x.kind = "Tools" THEN x.items ELSE {},
     otp |-> Some("valid"), entered |-> "valid"]

Engaged(x) == handle_estop_engage(security_config, estop_file, EngageArgsFor(x))

EngagedThenResumed(x) ==
    handle_estop_resume(security_config, Engaged(x).estop, ResumeArgsFor(x))

RoundTripCompletes(x) == Engaged(x).exit = "ok" /\ EngagedThenResumed(x).exit = "ok"

\* x is not engaged in state s; for KillAll, nothing at all is engaged in s
NotYetEngaged(s, x) ==
    CASE x.kind = "KillAll" -> s = EstopDefault
      [] x.kind = "Network" -> ~s.network_kill
      [] x.kind = "Domains" -> x.items \cap s.blocked_domains = {}
      [] x.kind = "Tools" -> x.items \cap s.frozen_tools = {}

\* C7 as stated: from every reachable estop state, engaging a category and
\* then resuming the same category gives back the state, also when the
\* category or other categories were already engaged.
C7_EngageResumeRoundTrip ==
    \A x \in EstopCategories :
        RoundTripCompletes(x) => EngagedThenResumed(x).estop = estop_file

\* C7 amended: from every reachable estop state, engaging a category and then
\* resuming the same category gives back the state exactly when the category
\* was not engaged before (for Domains and Tools: none of the given entries
\* was; for KillAll: nothing was engaged at all).
C7_EngageResumeRoundTripWhenNotEngaged ==
    \A x \in EstopCategories :
        RoundTripCompletes(x) =>
            (EngagedThenResumed(x).estop = estop_file <=> NotYetEngaged(estop_file, x))

\* the finished resume started from the state that engaging its category in
\* the present state produces, with another category engaged throughout
C7_Witness ==
    /\ proc.cmd = "estop_resume"
    /\ proc.exit = "ok"
    /\ proc.args.domains # {}
    /\ estop_file.network_kill
    /\ estop_file.blocked_domains # {}
    /\ proc.args.domains \cap estop_file.blocked_domains = {}
    /\ proc.before_estop # estop_file
    /\ proc.before_estop =
           Engaged([kind |-> "Domains", items |-> proc.args.domains]).estop

RanResume == proc.cmd = "estop_resume" /\ proc.exit = "ok"

\* the category the finished `estop resume` named on its command line
ResumedCategory ==
    IF proc.args.network THEN "Network"
    ELSE IF proc.args.domains # {} THEN "Domains"
    ELSE IF proc.args.tools # {} THEN "Tools"
    ELSE "KillAll"

KillAllCleared ==
    /\ ~estop_file.kill_all
    /\ estop_file.network_kill = proc.before_estop.network_kill
    /\ estop_file.blocked_domains = proc.before_estop.blocked_domains
    /\ estop_file.frozen_tools = proc.before_estop.frozen_tools

NetworkCleared ==
    estop_file = [proc.before_estop EXCEPT !.network_kill = FALSE]

DomainsCleared ==
    estop_file = [proc.before_estop EXCEPT !.blocked_domains = @ \ proc.args.domains]

ToolsCleared ==
    estop_file = [proc.before_estop EXCEPT !.frozen_tools = @ \ proc.args.tools]

\* C8 as stated: a resume clears the category it names and leaves every other
\* category as it was, for KillAll, Network, Domains(d) and Tools(t).
C8_ResumeClearsOnlyItsCategory ==
    RanResume =>
        CASE ResumedCategory = "KillAll" -> KillAllCleared
          [] ResumedCategory = "Network" -> NetworkCleared
          [] ResumedCategory = "Domains" -> DomainsCleared
          [] ResumedCategory = "Tools" -> ToolsCleared

\* C8 amended: a resume of Network, Domains(d) or Tools(t) clears the category
\* it names and leaves every other category as it was; a resume of KillAll
\* resets the whole state to the default.
C8_ResumeClearsItsCategoryKillAllResets ==
    RanResume =>
        CASE ResumedCategory = "KillAll" -> estop_file = EstopDefault
          [] ResumedCategory = "Network" -> NetworkCleared
          [] ResumedCategory = "Domains" -> DomainsCleared
          [] ResumedCategory = "Tools" -> ToolsCleared

C8_Witness ==
    /\ RanResume
    /\ ResumedCategory = "Network"
    /\ proc.before_estop.network_kill
    /\ proc.before_estop.kill_all
    /\ proc.before_estop.blocked_domains # {}
    /\ proc.before_estop.frozen_tools # {}
    /\ ~estop_file.network_kill
    /\ estop_file.kill_all
    /\ estop_file.blocked_domains = proc.before_estop.blocked_domains

\* the OTP code the finished `estop resume` presented: --otp, else the prompt
PresentedOtp ==
    IF IsSome(proc.args.otp) THEN Unwrap(proc.args.otp) ELSE proc.args.entered

\* C9: with require_otp_to_resume set, estop resume changes the estop state
\* only when OTP is enabled and the code is valid; with an invalid code or
\* with OTP disabled it fails and leaves the state as it was; engaging
\* succeeds on every accepted command line wherever estop is enabled, whatever
\* the OTP settings.
C9_ResumeNeedsValidOtp ==
    /\ (proc.cmd = "estop_resume" /\ security_config.require_otp_to_resume) =>
           /\ estop_file # proc.before_estop =>
                  security_config.otp_enabled /\ PresentedOtp = "valid"
           /\ (PresentedOtp # "valid" \/ ~security_config.otp_enabled) =>
                  proc.exit = "fail" /\ estop_file = proc.before_estop
    /\ ( /\ proc.cmd = "estop_engage"
         /\ security_config.estop_enabled
         /\ build_engage_level(proc.args.level, proc.args.domains, proc.args.tools).ok )
       => /\ proc.exit = "ok"
          /\ estop_file = EstopManager_engage(
                              proc.before_estop,
                              build_engage_level(proc.args.level, proc.args.domains,
                                                 proc.args.tools).value)

C9_Witness ==
    /\ proc.cmd = "estop_resume"
    /\ security_config.require_otp_to_resume
    /\ security_config.otp_enabled
    /\ proc.args.otp = None
    /\ PresentedOtp = "valid"
    /\ proc.exit = "ok"
    /\ proc.before_estop.kill_all
    /\ estop_file # proc.before_estop

\* ------------------------------------------------------------------------
\* Quick onboarding properties
\* ------------------------------------------------------------------------

\* the quick onboarding run passed mode validation and resolved its ids
OnboardPlanned ==
    /\ proc.cmd = "onboard"
    /\ proc.stderr # <<"error:mode_conflict">>
    /\ IsSome(onboard_quick_plan(proc.args))

\* --security-profile, else the intent's recommendation, else strict
EffectiveSecurityProfile ==
    IF IsSome(proc.args.security_profile) THEN Unwrap(proc.args.security_profile)
    ELSE IF IsSome(proc.args.intent) THEN Unwrap(proc.args.intent).recommended
    ELSE "strict"

OnboardRiskConditions ==
    (IF HasRiskyPack(Unwrap(onboard_quick_plan(proc.args)).planned_selection)
     THEN <<"risky_pack">> ELSE <<>>)
    \o (IF EffectiveSecurityProfile # "strict" THEN <<"security_non_strict">> ELSE <<>>)

WarningCodeOf(reason) ==
    IF reason = "risky_pack" THEN "risky_pack_requires_consent"
    ELSE "security_non_strict_requires_consent"

\* C10: quick onboarding without --yes-security-risk and without --dry-run
\* fails before run_quick_setup writes anything when the planned selection has
\* a risky pack or the effective security profile is not strict; with
\* --dry-run the conditions are the consent reasons, in the order risky_pack,
\* security_non_strict, with one warning code and one warning per reason; with
\* --yes-security-risk reasons, warning codes and warnings are empty.
C10_OnboardRiskConsent ==
    OnboardPlanned =>
        LET a == proc.args
            assessment == proc.result.assessment
        IN /\ (~a.yes_security_risk /\ ~a.dry_run /\ OnboardRiskConditions # <<>>) =>
                  /\ proc.exit = "fail"
                  /\ ~proc.result.setup_ran
                  /\ PersistentStateUntouched
           /\ (a.dry_run /\ ~a.yes_security_risk) =>
                  /\ IsSome(assessment)
                  /\ Unwrap(assessment).consent_reasons = OnboardRiskConditions
                  /\ Unwrap(assessment).warning_codes =
                         [i \in 1..Len(OnboardRiskConditions) |->
                             WarningCodeOf(OnboardRiskConditions[i])]
                  /\ Len(Unwrap(assessment).warnings) = Len(OnboardRiskConditions)
           /\ a.yes_security_risk =>
                  /\ IsSome(assessment)
                  /\ Unwrap(assessment).consent_reasons = <<>>
                  /\ Unwrap(assessment).warning_codes = <<>>
                  /\ Unwrap(assessment).warnings = <<>>

C10_Witness ==
    /\ OnboardPlanned
    /\ proc.args.dry_run /\ proc.args.json /\ ~proc.args.yes_security_risk
    /\ proc.exit = "ok"
    /\ IsSome(proc.result.report)
    /\ Unwrap(proc.result.report).consent_reasons = <<"risky_pack", "security_non_strict">>
    /\ Len(Unwrap(proc.result.report).warning_codes) = 2
    /\ Len(Unwrap(proc.result.report).warnings) = 2

\* ------------------------------------------------------------------------
\* Machine JSON and argument validation
\* ------------------------------------------------------------------------

\* C11: preset apply --json, preset import --json and quick onboard --json
\* without --dry-run fail with the requires-dry-run message before a selection
\* is planned or written: the persistent state is as it was and stdout is
\* empty.
C11_JsonWithoutDryRunRejected ==
    ( /\ proc.cmd \in {"preset_apply", "preset_import", "onboard"}
      /\ proc.args.json
      /\ ~proc.args.dry_run )
    => /\ proc.exit = "fail"
       /\ proc.stderr = IF proc.cmd = "onboard" THEN <<"error:mode_conflict">>
                        ELSE <<"error:json_requires_dry_run">>
       /\ PersistentStateUntouched
       /\ proc.stdout = <<>>

\* C12: security profile set --json without --dry-run is rejected and commits
\* no profile change.
C12_SecuritySetJsonRequiresDryRun ==
    ( /\ RanSecurityProfileSet
      /\ proc.args.json
      /\ ~proc.args.dry_run )
    => /\ proc.exit = "fail"
       /\ ~proc.result.config_saved
       /\ autonomy = proc.before_autonomy

\* the finished run asked for a rebuild without --dry-run and with approval:
\* --yes-rebuild, `preset rebuild --yes`, or a confirmed prompt of interactive
\* onboarding on a terminal
RebuildRequestedAndApproved ==
    CASE proc.cmd \in {"preset_apply", "preset_import", "onboard"} ->
           proc.args.rebuild /\ proc.args.yes_rebuild /\ ~proc.args.dry_run
      [] proc.cmd = "preset_intent" ->
           /\ proc.args.apply
           /\ proc.args.rebuild /\ proc.args.yes_rebuild /\ ~proc.args.dry_run
      [] proc.cmd = "preset_rebuild" -> proc.args.yes /\ ~proc.args.dry_run
      [] proc.cmd = "onboard_interactive" ->
           /\ ~proc.args.dry_run
           /\ \/ proc.args.rebuild /\ proc.args.yes_rebuild
              \/ proc.args.terminal /\ proc.args.confirmed
      [] OTHER -> FALSE

\* C13: the build command is executed only in a run that requested a rebuild
\* without --dry-run and with approval; every other run ends without
\* executing the builder.
C13_BuilderNeedsApproval ==
    proc.cmd # "none" => (proc.builder_ran => RebuildRequestedAndApproved)

C13_Witness ==
    /\ proc.cmd = "onboard_interactive"
    /\ proc.args.rebuild /\ ~proc.args.yes_rebuild
    /\ proc.args.terminal /\ proc.args.confirmed
    /\ proc.builder_ran
    /\ proc.exit = "ok"

\* ------------------------------------------------------------------------
\* Consent fields of reports
\* ------------------------------------------------------------------------

\* i18n key of every reason code (ConsentReasonCode::i18n_key,
\* SecurityRiskConsentReasonCode::i18n_key)
ReasonI18nKeys ==
    [risky_pack |-> "consent.reason.risky_pack",
     rebuild |-> "consent.reason.rebuild",
     security_non_strict |-> "consent.reason.security_non_strict",
     non_strict_profile |-> "security.risk_reason.non_strict_profile",
     non_cli_auto_approval |-> "security.risk_reason.non_cli_auto_approval"]

ConsentEntry(requires, reasons, keys) ==
    [requires |-> requires, reasons |-> reasons, keys |-> keys]

\* the consent fields of every report and next_commands entry the finished
\* run emitted
EmittedConsentEntries ==
    CASE proc.cmd \in {"preset_apply", "preset_import"} /\ IsSome(proc.result.report) ->
           {ConsentEntry(Unwrap(proc.result.report).apply_requires_explicit_consent,
                         Unwrap(proc.result.report).apply_consent_reasons,
                         Unwrap(proc.result.report).apply_consent_reason_keys)}
      [] proc.cmd = "preset_intent" ->
           {ConsentEntry(proc.result.next_commands[i].requires_explicit_consent,
                         proc.result.next_commands[i].consent_reasons,
                         proc.result.next_commands[i].consent_reason_keys) :
                i \in 1..Len(proc.result.next_commands)}
      [] proc.cmd = "onboard" /\ IsSome(proc.result.report) ->
           {ConsentEntry(Unwrap(proc.result.report).requires_explicit_consent,
                         Unwrap(proc.result.report).consent_reasons,
                         Unwrap(proc.result.report).consent_reason_keys)}
      [] proc.cmd = "security_profile_set" ->
           {ConsentEntry(proc.result.report.requires_explicit_risk_consent,
                         proc.result.report.risk_consent_reasons,
                         proc.result.report.risk_consent_reason_keys)}
      [] proc.cmd = "security_profile_recommend" /\ IsSome(proc.result.report) ->
           {ConsentEntry(Unwrap(proc.result.report).apply_requires_explicit_risk_consent,
                         Unwrap(proc.result.report).apply_consent_reasons,
                         Unwrap(proc.result.report).apply_consent_reason_keys)}
      [] OTHER -> {}

ConsentEntryConsistent(e) ==
    /\ e.requires <=> e.reasons # <<>>
    /\ Len(e.keys) = Len(e.reasons)
    /\ \A i \in 1..Len(e.reasons) : e.keys[i] = ReasonI18nKeys[e.reasons[i]]
    /\ e.requires => e.keys # <<>>

\* C14: in every emitted report and next_commands entry the requires-consent
\* boolean is true exactly when the consent-reasons list is non-empty, and the
\* reason-keys list is parallel to the reasons list: same length, same order,
\* each key the i18n key of the reason at its index.
C14_ConsentFieldsAgree ==
    \A e \in EmittedConsentEntries : ConsentEntryConsistent(e)

C14_Witness ==
    /\ proc.cmd = "preset_intent"
    /\ proc.exit = "ok"
    /\ \E i \in 1..Len(proc.result.next_commands) :
          /\ proc.result.next_commands[i].id = "preset.apply"
          /\ proc.result.next_commands[i].requires_explicit_consent
          /\ proc.result.next_commands[i].consent_reasons = <<"risky_pack", "rebuild">>
          /\ proc.result.next_commands[i].consent_reason_keys
                 = <<"consent.reason.risky_pack", "consent.reason.rebuild">>

\* the finished run emitted the dry-run report of `preset apply`,
\* `preset import` or quick `onboard`
EmittedDryRunReport ==
    /\ proc.cmd \in {"preset_apply", "preset_import", "onboard"}
    /\ proc.args.dry_run
    /\ IsSome(proc.result.report)

DryRunReportReasons ==
    IF proc.cmd = "onboard"
    THEN Unwrap(proc.result.report).consent_reasons
    ELSE Unwrap(proc.result.report).apply_consent_reasons

\* --yes-risky, or --yes-security-risk for onboard
RiskyPackConsentFlag ==
    IF proc.cmd = "onboard" THEN proc.args.yes_security_risk ELSE proc.args.yes_risky

\* C15: in the dry-run reports of `preset apply`, `preset import` and quick
\* `onboard` the consent reasons contain risky_pack exactly when the planned
\* selection has a risky pack and the risky-pack consent flag is absent, and
\* contain rebuild exactly when --rebuild is given without --yes-rebuild.
C15_DryRunReasonDerivation ==
    EmittedDryRunReport
    => /\ Contains(DryRunReportReasons, "risky_pack")
              <=> (HasRiskyPack(Unwrap(proc.result.report).planned_selection)
                   /\ ~RiskyPackConsentFlag)
       /\ Contains(DryRunReportReasons, "rebuild")
              <=> (proc.args.rebuild /\ ~proc.args.yes_rebuild)

\* ------------------------------------------------------------------------
\* Browser tool
\* ------------------------------------------------------------------------

RanBrowserOpen == proc.cmd = "browser_open"

NavigationStarted == RanBrowserOpen /\ IsSome(proc.result.navigated)

\* C16: on either backend an `open` starts no navigation to a URL unless
\* validate_url accepted that URL.
C16_OpenValidatesOnEveryBackend ==
    NavigationStarted
    => /\ proc.result.validated = "accepted"
       /\ validate_url(proc.args.allowed_domains, Unwrap(proc.result.navigated)).ok

HttpSchemes == {"https://", "http://"}

\* localhost, loopback, RFC 1918, link-local, unspecified, IPv6 unique-local
\* and link-local, IPv4-mapped private
LocalOrPrivateHosts ==
    {"localhost", "127.0.0.1", "10.0.0.1", "169.254.169.254", "0.0.0.0",
     "[::1]", "[fd00::1]", "[fe80::1]", "[::ffff:10.0.0.1]"}

RanValidateUrl == proc.cmd = "validate_url"

\* C17: validate_url rejects every http/https URL when allowed_domains is
\* empty, rejects every http/https URL whose host is local or private whatever
\* allowed_domains holds, rejects every scheme other than http, https and
\* file, and accepts every file:// URL.
C17_ValidateUrlRules ==
    RanValidateUrl
    => /\ (proc.args.url.scheme \in HttpSchemes /\ proc.args.allowed_domains = <<>>)
              => ~proc.result.ok
       /\ (proc.args.url.scheme \in HttpSchemes
           /\ IsSome(proc.args.url.host)
           /\ Unwrap(proc.args.url.host) \in LocalOrPrivateHosts)
              => ~proc.result.ok
       /\ proc.args.url.scheme \notin (HttpSchemes \cup {"file://"}) => ~proc.result.ok
       /\ proc.args.url.scheme = "file://" => proc.result.ok

\* ------------------------------------------------------------------------
\* Pending OAuth lifetime
\* ------------------------------------------------------------------------

RanAuth == proc.cmd \in {"auth_login", "auth_paste_redirect", "auth_logout"}

PendingFileGone(provider) ==
    /\ auth_store.pending[provider] = AbsentFile
    /\ load_pending_oauth_login(auth_store, provider) = Succeeded(None)

LoginCompleted ==
    \/ proc.cmd = "auth_login" /\ proc.exit = "ok" /\ proc.result.loopback = "code"
    \/ proc.cmd = "auth_paste_redirect" /\ proc.exit = "ok"

LoggedOut ==
    /\ proc.cmd = "auth_logout"
    /\ proc.exit = "ok"
    /\ proc.args.provider \in {"gemini", "openai-codex"}

\* C18: after a login completed through the loopback callback or through
\* paste-redirect, and after a logout of the provider, the provider's
\* pending-login file is gone and load_pending_oauth_login returns None.
C18_PendingConsumed ==
    (RanAuth /\ (LoginCompleted \/ LoggedOut))
        => PendingFileGone(pending_provider(proc.args.provider))

\* ------------------------------------------------------------------------
\* Loopback callback timeout
\* ------------------------------------------------------------------------

LoopbackTimedOut ==
    /\ proc.cmd = "auth_login"
    /\ proc.result.loopback = "timeout"

PasteRedirectInstructionPrinted ==
    \E i \in 1..Len(proc.stdout) : proc.stdout[i] = "text:run_paste_redirect"

PendingLeftForPasteRedirect ==
    LET loaded == load_pending_oauth_login(auth_store, pending_provider(proc.args.provider))
    IN /\ loaded.ok
       /\ loaded.value = proc.result.saved
       /\ handle_auth_paste_redirect(auth_store,
              [provider |-> proc.args.provider, profile |-> proc.args.profile,
               parse_ok |-> TRUE, exchange_ok |-> TRUE]).exit = "ok"

\* C19: when the loopback listener delivers no code within its 180 s
\* deadline, `auth login` exits non-zero after printing the paste-redirect
\* instruction, stores no auth profile and leaves the pending login on disk
\* for `auth paste-redirect`.
C19_LoopbackTimeoutFails ==
    LoopbackTimedOut =>
        /\ proc.exit = "fail"
        /\ PasteRedirectInstructionPrinted
        /\ auth_store.profiles = proc.before_store.profiles
        /\ PendingLeftForPasteRedirect

\* ------------------------------------------------------------------------
\* Pending OAuth file round trip
\* ------------------------------------------------------------------------

\* a save wrote the pending file and nothing cleared it afterwards
SavedPendingOnDisk ==
    /\ proc.cmd \in {"auth_login", "save_pending_oauth_login"}
    /\ IsSome(proc.result.saved)
    /\ auth_store.pending[Unwrap(proc.result.saved).provider] # AbsentFile

WrittenPendingFile == auth_store.pending[Unwrap(proc.result.saved).provider]

\* C20: loading after save_pending_oauth_login(p) gives back p (provider,
\* profile, code_verifier, state, created_at), and the written file holds
\* encrypted_code_verifier and no plaintext code_verifier field, also when p
\* was loaded from a legacy plaintext file.
C20_SaveLoadRoundTrip ==
    SavedPendingOnDisk =>
        /\ load_pending_oauth_login(auth_store, Unwrap(proc.result.saved).provider)
               = Succeeded(proc.result.saved)
        /\ WrittenPendingFile.kind = "json"
        /\ WrittenPendingFile.code_verifier = None
        /\ IsSome(WrittenPendingFile.encrypted_code_verifier)

C20_Witness ==
    /\ proc.cmd = "save_pending_oauth_login"
    /\ proc.before_store.pending["gemini"] = LegacyPendingFile
    /\ proc.args.pending.provider = "gemini"
    /\ proc.args.pending.code_verifier = "verifier-legacy"
    /\ auth_store.encrypt
    /\ WrittenPendingFile.code_verifier = None
    /\ Unwrap(WrittenPendingFile.encrypted_code_verifier).scheme = "enc2"
    /\ load_pending_oauth_login(auth_store, "gemini").value = Some(proc.args.pending)

\* ------------------------------------------------------------------------
\* Atomic save of the pending OAuth file
\* ------------------------------------------------------------------------

SaveReturned(pid) == oauth_io.pc[pid] = "returned"

PendingPathMode ==
    IF IsSome(oauth_io.names[PendingPath])
    THEN oauth_io.inodes[Unwrap(oauth_io.names[PendingPath])].mode
    ELSE "no file"

\* C21: a reader running next to save_pending_oauth_login sees the complete
\* earlier file, no file, or a complete new file, never a partly written
\* one; and from the moment a save has returned the file at the pending path
\* has mode 0600.
C21_SaveIsAtomicAndOwnerOnly ==
    /\ oauth_io.reader.seen \in {"nothing", "absent", "complete"}
    /\ \A pid \in SaverPids : SaveReturned(pid) => PendingPathMode = "0600"

C21_Witness ==
    /\ \E pid \in SaverPids : SaveReturned(pid)
    /\ \E pid \in SaverPids : oauth_io.pc[pid] \in {"write", "write_rest", "chmod_tmp"}
    /\ oauth_io.reader.seen = "complete"
    /\ oauth_io.reader.pc = "idle"
    /\ PendingPathMode = "0600"
    /\ oauth_io.inodes[Unwrap(oauth_io.names[PendingPath])].writer # "prev"

\* ------------------------------------------------------------------------
\* preset export
\* ------------------------------------------------------------------------

RanPresetExport == proc.cmd = "preset_export" /\ proc.exit = "ok"

ExpectedSourceKind ==
    IF IsSome(proc.args.preset) THEN "official_preset"
    ELSE IF IsSome(proc.before_selection) THEN "workspace_selection"
    ELSE "default_selection"

ExportedSelection ==
    IF IsSome(proc.args.preset) THEN Unwrap(from_preset_id(Unwrap(proc.args.preset)))
    ELSE IF IsSome(proc.before_selection) THEN Unwrap(proc.before_selection)
    ELSE Unwrap(default_selection)

ExportReportMatchesDisk ==
    LET report == Unwrap(proc.result.report)
        on_disk == Unwrap(proc.result.target_file)
    IN /\ report.source_kind = ExpectedSourceKind
       /\ report.requested_preset = proc.args.preset
       /\ (report.source_kind = "official_preset" <=> IsSome(report.requested_preset))
       /\ report.write_performed
       /\ report.bytes_written = Len(on_disk)
       /\ report.payload_sha256 = Sha256_digest(on_disk)

\* C22: a preset export that runs to its end has written the payload of the
\* exported selection to the target path, with or without --json; its JSON
\* report names official_preset with requested_preset exactly when --preset is
\* given, else workspace_selection when a workspace selection exists, else
\* default_selection; bytes_written and payload_sha256 are the length and the
\* SHA-256 of the file on disk.
C22_ExportReportsWhatItWrote ==
    RanPresetExport =>
        /\ proc.result.target_file
               = Some(document_bytes(selection_to_document(ExportedSelection)))
        /\ (proc.args.json <=> IsSome(proc.result.report))
        /\ (proc.args.json => ExportReportMatchesDisk)

C22_Witness ==
    /\ RanPresetExport
    /\ proc.args.json
    /\ proc.args.preset = None
    /\ IsSome(proc.before_selection)
    /\ Unwrap(proc.before_selection).packs = <<"core-agent", "browser-native", "tools-update">>
    /\ proc.args.target_before = Some(<<"other", "bytes">>)
    /\ Unwrap(proc.result.report).source_kind = "workspace_selection"
    /\ Unwrap(proc.result.report).bytes_written = Len(Unwrap(proc.result.target_file))
    /\ Len(Unwrap(proc.result.target_file)) > Len(<<"other", "bytes">>)

\* ------------------------------------------------------------------------
\* Estop argument rules
\* ------------------------------------------------------------------------

EstopCommandRan(cmd) == proc.cmd = cmd /\ security_config.estop_enabled

ResumeSelected ==
    (IF proc.args.network THEN {"network"} ELSE {})
        \cup (IF proc.args.domains # {} THEN {"domain"} ELSE {})
        \cup (IF proc.args.tools # {} THEN {"tool"} ELSE {})

Rejected == proc.exit = "fail" /\ estop_file = proc.before_estop

EngageRequested == IF IsSome(proc.args.level) THEN Unwrap(proc.args.level) ELSE "kill-all"

\* the arguments the requested level admits
EngageArgsAdmitted ==
    CASE EngageRequested \in {"kill-all", "network-kill"} ->
           proc.args.domains = {} /\ proc.args.tools = {}
      [] EngageRequested = "domain-block" ->
           proc.args.domains # {} /\ proc.args.tools = {}
      [] EngageRequested = "tool-freeze" ->
           proc.args.tools # {} /\ proc.args.domains = {}

EngagedAsRequested ==
    CASE EngageRequested = "kill-all" -> estop_file.kill_all
      [] EngageRequested = "network-kill" -> estop_file.network_kill
      [] EngageRequested = "domain-block" -> proc.args.domains \subseteq estop_file.blocked_domains
      [] EngageRequested = "tool-freeze" -> proc.args.tools \subseteq estop_file.frozen_tools

\* C23: estop resume given two or more of --network, --domain, --tool is
\* rejected and changes nothing, and given none of them it selects the full
\* KillAll resume; estop without --level engages KillAll; each level is
\* engaged exactly with the arguments it admits (kill-all and network-kill:
\* no --domain, no --tool; domain-block: a --domain and no --tool; tool-freeze:
\* a --tool and no --domain) and is rejected otherwise.
C23_EstopArgumentRules ==
    /\ EstopCommandRan("estop_resume") =>
          /\ (Cardinality(ResumeSelected) > 1 => Rejected)
          /\ (Cardinality(ResumeSelected) > 1 <=>
                ~build_resume_selector(proc.args.network, proc.args.domains,
                                       proc.args.tools).ok)
          /\ (ResumeSelected = {} =>
                build_resume_selector(proc.args.network, proc.args.domains,
                                      proc.args.tools)
                  = Succeeded([kind |-> "KillAll", items |-> {}]))
          /\ (ResumeSelected = {} /\ proc.exit = "ok" => estop_file = EstopDefault)
    /\ EstopCommandRan("estop_engage") =>
          /\ (EngageArgsAdmitted => proc.exit = "ok" /\ EngagedAsRequested)
          /\ (~EngageArgsAdmitted => Rejected)
          /\ (proc.args.level = None /\ proc.exit = "ok" =>
                estop_file = [proc.before_estop EXCEPT !.kill_all = TRUE])

C23_Witness ==
    /\ EstopCommandRan("estop_resume")
    /\ ResumeSelected = {"network", "domain"}
    /\ proc.before_estop.network_kill
    /\ proc.before_estop.blocked_domains # {}
    /\ Rejected

\* ------------------------------------------------------------------------
\* Order of estop operations
\* ------------------------------------------------------------------------

NonEmptySubsets(S) == (SUBSET S) \ {{}}

\* every engage level and every resume selector
EstopOps ==
    {[op |-> "engage", kind |-> "KillAll", items |-> {}],
     [op |-> "engage", kind |-> "NetworkKill", items |-> {}],
     [op |-> "resume", kind |-> "KillAll", items |-> {}],
     [op |-> "resume", kind |-> "Network", items |-> {}]}
    \cup {[op |-> "engage", kind |-> "DomainBlock", items |-> d] : d \in NonEmptySubsets(Domains)}
    \cup {[op |-> "engage", kind |-> "ToolFreeze", items |-> t] : t \in NonEmptySubsets(Tools)}
    \cup {[op |-> "resume", kind |-> "Domains", items |-> d] : d \in NonEmptySubsets(Domains)}
    \cup {[op |-> "resume", kind |-> "Tools", items |-> t] : t \in NonEmptySubsets(Tools)}

NoOtpRequired == [require_otp_to_resume |-> FALSE]

ApplyEstopOp(o, state) ==
    IF o.op = "engage"
    THEN EstopManager_engage(state, [kind |-> o.kind, items |-> o.items])
    ELSE EstopManager_resume(NoOtpRequired, state, [kind |-> o.kind, items |-> o.items],
                             None, None).value

CategoryOf(o) ==
    CASE o.kind = "KillAll" -> "kill_all"
      [] o.kind \in {"NetworkKill", "Network"} -> "network_kill"
      [] o.kind \in {"DomainBlock", "Domains"} -> "blocked_domains"
      [] o.kind \in {"ToolFreeze", "Tools"} -> "frozen_tools"

CategoryValue(state, category) ==
    CASE category = "kill_all" -> <<state.kill_all>>
      [] category = "network_kill" -> <<state.network_kill>>
      [] category = "blocked_domains" -> <<state.blocked_domains>>
      [] category = "frozen_tools" -> <<state.frozen_tools>>

EstopOpRan == proc.cmd \in {"estop_engage", "estop_resume"} /\ proc.exit = "ok"

\* the operation the finished command applied to proc.before_estop
RanEstopOp ==
    IF proc.cmd = "estop_engage"
    THEN LET level == build_engage_level(proc.args.level, proc.args.domains,
                                         proc.args.tools).value
         IN [op |-> "engage", kind |-> level.kind, items |-> level.items]
    ELSE LET selector == build_resume_selector(proc.args.network, proc.args.domains,
                                               proc.args.tools).value
         IN [op |-> "resume", kind |-> selector.kind, items |-> selector.items]

\* running q after the finished operation gives what running q before it gives
CommutesWithRan(q) ==
    ApplyEstopOp(q, estop_file) = ApplyEstopOp(RanEstopOp, ApplyEstopOp(q, proc.before_estop))

\* an earlier q leaves no trace in the category once the finished operation ran
RanDeterminesCategory(q) ==
    CategoryValue(ApplyEstopOp(RanEstopOp, ApplyEstopOp(q, proc.before_estop)),
                  CategoryOf(RanEstopOp))
        = CategoryValue(estop_file, CategoryOf(RanEstopOp))

IsFullReset(o) == o.op = "resume" /\ o.kind = "KillAll"

\* what the later operation fixes in its own category: the flag, or the
\* membership of every pattern or tool it names
RanFixesItsItems(q) ==
    LET after == ApplyEstopOp(RanEstopOp, ApplyEstopOp(q, proc.before_estop))
        earlier == ApplyEstopOp(q, proc.before_estop)
        category == CategoryOf(RanEstopOp)
    IN CASE category = "kill_all" -> after.kill_all = (RanEstopOp.op = "engage")
         [] category = "network_kill" -> after.network_kill = (RanEstopOp.op = "engage")
         [] category = "blocked_domains" ->
              /\ \A d \in RanEstopOp.items :
                    (d \in after.blocked_domains) = (RanEstopOp.op = "engage")
              /\ \A d \in Domains \ RanEstopOp.items :
                    (d \in after.blocked_domains) = (d \in earlier.blocked_domains)
         [] category = "frozen_tools" ->
              /\ \A t \in RanEstopOp.items :
                    (t \in after.frozen_tools) = (RanEstopOp.op = "engage")
              /\ \A t \in Tools \ RanEstopOp.items :
                    (t \in after.frozen_tools) = (t \in earlier.frozen_tools)

\* C24 as stated: two estop operations on different categories give the same
\* state in either order, and of two operations on the same category the
\* later one alone determines the value of that category.
C24_EstopOpsCommute ==
    EstopOpRan =>
        \A q \in EstopOps :
            /\ (CategoryOf(q) # CategoryOf(RanEstopOp) => CommutesWithRan(q))
            /\ (CategoryOf(q) = CategoryOf(RanEstopOp) => RanDeterminesCategory(q))

\* C24 amended: two estop operations on different categories, neither of them
\* resume(KillAll), give the same state in either order; of two operations on
\* the same category the later one fixes the kill_all or network_kill flag,
\* and for blocked_domains and frozen_tools it fixes the membership of the
\* patterns or tools it names and keeps the others as the earlier one left them.
C24_EstopOpsCommuteExceptFullReset ==
    EstopOpRan =>
        \A q \in EstopOps :
            /\ (CategoryOf(q) # CategoryOf(RanEstopOp)
                  /\ ~IsFullReset(q) /\ ~IsFullReset(RanEstopOp)
                    => CommutesWithRan(q))
            /\ (CategoryOf(q) = CategoryOf(RanEstopOp) /\ ~IsFullReset(RanEstopOp)
                    => RanFixesItsItems(q))

C24_Witness ==
    /\ EstopOpRan
    /\ proc.cmd = "estop_resume"
    /\ RanEstopOp.kind = "Domains"
    /\ proc.before_estop.blocked_domains # {}
    /\ proc.before_estop.network_kill
    /\ estop_file.blocked_domains # proc.before_estop.blocked_domains
    /\ estop_file.blocked_domains # {}
    /\ CommutesWithRan([op |-> "engage", kind |-> "ToolFreeze", items |-> {"shell"}])

\* ------------------------------------------------------------------------
\* compose_selection
\* ------------------------------------------------------------------------

SeqSet(seq) == {seq[i] : i \in 1..Len(seq)}

NoDuplicates(seq) == \A i, j \in 1..Len(seq) : seq[i] = seq[j] => i = j

FirstIndex(seq, x) == CHOOSE i \in 1..Len(seq) : seq[i] = x /\ \A j \in 1..(i - 1) : seq[j] # x

\* the place of a pack in "base packs, then the added packs by first occurrence"
ComposeRank(base, add_packs, p) ==
    IF p \in SeqSet(base.packs) THEN FirstIndex(base.packs, p)
    ELSE Len(base.packs) + FirstIndex(add_packs, p)

Composed ==
    /\ proc.cmd = "compose_selection"
    /\ SeqSet(proc.args.add_packs) \cup SeqSet(proc.args.remove_packs) \subseteq PackIds

\* C25: for a base selection b and lists a, r whose ids all resolve,
\* compose_selection(b, a, r) succeeds with packs free of duplicates that are
\* b.packs followed by the packs of a not already present, in first
\* occurrence order, without the packs of r; added_packs is a subset of packs;
\* removing one more pack that is absent changes nothing.
C25_ComposeSelection ==
    Composed =>
        LET b == proc.args.base
            a == proc.args.add_packs
            r == proc.args.remove_packs
        IN /\ IsSome(proc.result)
           /\ NoDuplicates(Unwrap(proc.result).packs)
           /\ SeqSet(Unwrap(proc.result).packs) = (SeqSet(b.packs) \cup SeqSet(a)) \ SeqSet(r)
           /\ \A i, j \in 1..Len(Unwrap(proc.result).packs) :
                 i < j => ComposeRank(b, a, Unwrap(proc.result).packs[i])
                            < ComposeRank(b, a, Unwrap(proc.result).packs[j])
           /\ SeqSet(Unwrap(proc.result).added_packs) \subseteq SeqSet(Unwrap(proc.result).packs)
           /\ \A x \in PackIds \ (SeqSet(b.packs) \cup SeqSet(a)) :
                 /\ compose_selection(b, a, Append(r, x)) = compose_selection(b, a, r)
                 /\ compose_selection(b, a, <<x>> \o r) = compose_selection(b, a, r)

C25_Witness ==
    /\ Composed
    /\ proc.args.base.packs = <<"core-agent", "browser-native">>
    /\ proc.args.add_packs = <<"tools-update", "tools-update">>
    /\ proc.args.remove_packs = <<"core-agent">>
    /\ Unwrap(proc.result).packs = <<"browser-native", "tools-update">>

\* ------------------------------------------------------------------------
\* preset intent: plan-only modes
\* ------------------------------------------------------------------------

RanPresetIntent == proc.cmd = "preset_intent"

SelectionNotWritten == selection_file = proc.before_selection /\ ~proc.result.saved

\* C26: preset intent without --apply leaves the workspace selection as it
\* was whatever other flags are given; preset intent --apply with --json or
\* with --emit-shell fails before anything is loaded or written: no plan, no
\* output, no selection change, no script file.
C26_IntentPlanOnly ==
    RanPresetIntent =>
        /\ (~proc.args.apply => SelectionNotWritten /\ ~proc.builder_ran)
        /\ (proc.args.apply /\ (proc.args.json \/ proc.args.emit_shell) =>
              /\ proc.exit = "fail"
              /\ SelectionNotWritten
              /\ ~proc.builder_ran
              /\ proc.result.planned = None
              /\ proc.result.script = None
              /\ proc.result.stdout = <<>>)

C26_Witness ==
    /\ RanPresetIntent
    /\ ~proc.args.apply
    /\ proc.args.yes_risky /\ proc.args.rebuild /\ proc.args.yes_rebuild
    /\ proc.args.emit_shell /\ ~proc.args.dry_run
    /\ proc.exit = "ok"
    /\ IsSome(proc.result.planned)
    /\ proc.result.planned # proc.before_selection
    /\ IsSome(proc.result.script)
    /\ selection_file = proc.before_selection

\* ------------------------------------------------------------------------
\* C27: the generated script gates consent
\* ------------------------------------------------------------------------

RanEmitScript == proc.cmd = "emit_script"

IsNextCommandLine(line) ==
    \E i \in 1..Len(proc.next_commands) :
        line = shell_command_line(proc.next_commands[i].command)

\* the next commands the script is meant to run under the given replies
AdmittedNextCommands ==
    SelectSeq(proc.next_commands,
              LAMBDA c : ~c.requires_explicit_consent
                         \/ confirm(proc.replies[ConfirmPrompt(c.id)]))

AdmittedCommandLines ==
    [i \in 1..Len(AdmittedNextCommands) |->
        shell_command_line(AdmittedNextCommands[i].command)]

\* C27: running the generated script runs, of the next commands, exactly
\* those that need no consent or whose prompt was answered y/yes, in
\* next_commands order: a consent-gated command never runs outside its
\* `if confirm` block.
C27_ScriptGatesConsent ==
    RanEmitScript =>
        SelectSeq(proc.executed, IsNextCommandLine) = AdmittedCommandLines

\* a script that ran a consent-gated command although every prompt was declined
C27_UngatedRun ==
    /\ RanEmitScript
    /\ \A p \in ConfirmPrompts : ~confirm(proc.replies[p])
    /\ \E i \in 1..Len(proc.next_commands) :
          /\ proc.next_commands[i].requires_explicit_consent
          /\ \E j \in 1..Len(proc.executed) :
                proc.executed[j] = shell_command_line(proc.next_commands[i].command)

\* ------------------------------------------------------------------------
\* next_commands of the preset intent report
\* ------------------------------------------------------------------------

\* the run printed a preset.intent_orchestration report
IntentReported ==
    RanPresetIntent /\ proc.exit = "ok" /\ (proc.args.json \/ ~proc.args.apply)

NextCommandIdsOf(next_commands) ==
    [i \in 1..Len(next_commands) |-> next_commands[i].id]

PreviewSameAsApply ==
    proc.args.dry_run /\ ~proc.args.yes_risky /\ ~proc.args.yes_rebuild

\* C28: next_commands of a preset intent report is preset.apply then
\* security.profile.set, preceded by preset.apply.preview unless the preview
\* command string equals the preset.apply one, which is exactly when
\* --dry-run is given and neither --yes-risky nor --yes-rebuild is; the
\* preview entry never requires consent.
C28_NextCommandsShape ==
    IntentReported =>
        LET nc == proc.result.next_commands
        IN /\ NextCommandIdsOf(nc) =
                 IF PreviewSameAsApply
                 THEN <<"preset.apply", "security.profile.set">>
                 ELSE <<"preset.apply.preview", "preset.apply", "security.profile.set">>
           /\ PreviewSameAsApply <=>
                 (build_preset_intent_command(proc.args.text, TRUE, TRUE, FALSE,
                                              proc.args.rebuild, FALSE)
                  = build_preset_intent_command(proc.args.text, TRUE, proc.args.dry_run,
                                                proc.args.yes_risky, proc.args.rebuild,
                                                proc.args.yes_rebuild))
           /\ \A i \in 1..Len(nc) :
                 nc[i].id = "preset.apply.preview" =>
                     /\ ~nc[i].requires_explicit_consent
                     /\ nc[i].consent_reasons = <<>>
                     /\ nc[i].command # nc[i + 1].command

\* a report whose preview entry was removed, with --rebuild given
C28_Witness ==
    /\ IntentReported
    /\ PreviewSameAsApply /\ proc.args.rebuild
    /\ Len(proc.result.next_commands) = 2
    /\ proc.result.next_commands[1].id = "preset.apply"

\* ------------------------------------------------------------------------
\* onboard flag validation
\* ------------------------------------------------------------------------

RanValidateOnboard == proc.cmd = "validate_onboard_command_mode"

QuickSetupFlags ==
    {"api_key_present", "provider_present", "model_present", "memory_present",
     "preset_present", "pack_present", "intent_present", "security_profile_present",
     "yes_security_risk", "dry_run", "json"}

\* the flag combinations listed as errors
OnboardModeRejected(a) ==
    \/ a.interactive /\ a.channels_only
    \/ a.intent_present /\ (a.interactive \/ a.channels_only)
    \/ a.intent_present /\ (a.preset_present \/ a.pack_present)
    \/ (a.dry_run \/ a.json) /\ (a.interactive \/ a.channels_only)
    \/ a.json /\ ~a.dry_run
    \/ a.yes_rebuild /\ ~a.rebuild
    \/ a.channels_only
          /\ \E f \in QuickSetupFlags \cup {"rebuild", "yes_rebuild", "force"} : a[f]

\* C29: validate_onboard_command_mode returns an error exactly for:
\* --interactive with --channels-only; --intent with --interactive or
\* --channels-only; --intent with --preset or --pack; --dry-run or --json with
\* --interactive or --channels-only; --json without --dry-run; --yes-rebuild
\* without --rebuild; --channels-only with any quick-setup, rebuild or
\* --force flag; every other flag combination is Ok.
C29_OnboardModeValidation ==
    RanValidateOnboard => (proc.ok <=> ~OnboardModeRejected(proc.args))

\* --json without --dry-run in quick mode is rejected by that rule alone
C29_Witness ==
    /\ RanValidateOnboard
    /\ proc.args.json /\ ~proc.args.dry_run
    /\ ~proc.args.interactive /\ ~proc.args.channels_only
    /\ ~proc.args.intent_present /\ ~proc.args.yes_rebuild
    /\ ~proc.ok

\* ------------------------------------------------------------------------
\* consent flags of the prefilled next commands
\* ------------------------------------------------------------------------

\* the command-line flag that gives the consent a reason asks for
ConsentFlag(reason) ==
    CASE reason = "risky_pack" -> "--yes-risky"
      [] reason = "rebuild" -> "--yes-rebuild"
      [] reason = "security_non_strict" -> "--yes-risk"

CommandHasFlag(command, flag) ==
    \E i \in 1..Len(shell_command_line(command)) :
        shell_command_line(command)[i] = ShellWord(flag, FALSE)

\* C30: every next_commands entry that requires explicit consent has a
\* command string carrying the consent flag of each of its consent reasons
\* (--yes-risky for risky_pack, --yes-rebuild for rebuild, --yes-risk for
\* security_non_strict), so that the command is not refused when it is run.
C30_ConsentCommandsCarryFlags ==
    IntentReported =>
        \A i \in 1..Len(proc.result.next_commands) :
            LET c == proc.result.next_commands[i]
            IN c.requires_explicit_consent =>
                   \A k \in 1..Len(c.consent_reasons) :
                       CommandHasFlag(c.command, ConsentFlag(c.consent_reasons[k]))

\* the preset.apply entry asks for consent for a risky pack and its command,
\* run as written, is refused by the risky-pack gate
C30_ApplyCommandRefused ==
    /\ IntentReported
    /\ \E i \in 1..Len(proc.result.next_commands) :
          LET c == proc.result.next_commands[i]
          IN /\ c.id = "preset.apply"
             /\ c.requires_explicit_consent
             /\ c.consent_reasons[1] = "risky_pack"
             /\ ~CommandHasFlag(c.command, "--yes-risky")
             /\ handle_preset_intent(
                    selection_file,
                    [proc.args EXCEPT !.apply = TRUE, !.json = FALSE,
                                      !.emit_shell = FALSE]).exit = "fail"

\* ------------------------------------------------------------------------
\* the dry-run report against the run without --dry-run
\* ------------------------------------------------------------------------

ConsentErrors == {"error:risky_pack_consent", "error:rebuild_consent", "error:risk_consent"}

RefusedForMissingConsent(r) ==
    r.exit = "fail" /\ \E i \in 1..Len(r.stderr) : r.stderr[i] \in ConsentErrors

\* the same command line with --dry-run (and the --json that needs it) left out
WithoutDryRun(a) == [a EXCEPT !.dry_run = FALSE, !.json = FALSE]

\* the finished run printed a dry-run report with a requires-consent field
PrintedDryRunReport ==
    /\ proc.cmd \in {"preset_apply", "preset_import", "security_profile_set", "onboard"}
    /\ proc.args.dry_run
    /\ proc.exit = "ok"
    /\ proc.cmd # "security_profile_set" => IsSome(proc.result.report)

DryRunReportRequiresConsent ==
    CASE proc.cmd \in {"preset_apply", "preset_import"} ->
           Unwrap(proc.result.report).apply_requires_explicit_consent
      [] proc.cmd = "security_profile_set" ->
           proc.result.report.requires_explicit_risk_consent
      [] proc.cmd = "onboard" ->
           Unwrap(proc.result.report).requires_explicit_consent

\* the same command, from the same prior state, without --dry-run, is refused
\* for missing consent
RunWithoutDryRunIsRefused ==
    CASE proc.cmd = "preset_apply" ->
           RefusedForMissingConsent(
               handle_preset_apply(proc.before_selection, WithoutDryRun(proc.args)))
      [] proc.cmd = "preset_import" ->
           RefusedForMissingConsent(
               handle_preset_import(proc.before_selection, WithoutDryRun(proc.args)))
      [] proc.cmd = "security_profile_set" ->
           RefusedForMissingConsent(
               handle_security_set(proc.before_autonomy, WithoutDryRun(proc.args)))
      [] proc.cmd = "onboard" ->
           RefusedForMissingConsent(
               onboard_quick(proc.before_selection, proc.before_autonomy,
                             WithoutDryRun(proc.args)))

\* C31: the requires-consent field of the dry-run report of preset apply,
\* preset import, security profile set and quick onboard is true if and only
\* if the same command, with the same flags and from the same prior state,
\* run without --dry-run is refused for missing consent.
C31_DryRunPredictsGate ==
    PrintedDryRunReport => (DryRunReportRequiresConsent <=> RunWithoutDryRunIsRefused)

\* `security profile set balanced --yes-risk --dry-run`: the report asks for
\* consent that the command line already gives
C31_SecurityReportIgnoresYesRisk ==
    /\ PrintedDryRunReport
    /\ proc.cmd = "security_profile_set"
    /\ proc.args.yes_risk
    /\ DryRunReportRequiresConsent
    /\ ~RunWithoutDryRunIsRefused

\* `onboard --rebuild --dry-run --json`: the report asks for no consent and
\* the run without --dry-run is refused for the missing --yes-rebuild
C31_OnboardReportOmitsRebuild ==
    /\ PrintedDryRunReport
    /\ proc.cmd = "onboard"
    /\ proc.args.rebuild /\ ~proc.args.yes_rebuild
    /\ ~DryRunReportRequiresConsent
    /\ RunWithoutDryRunIsRefused

\* for preset apply and preset import the report does predict the gate
C31_PresetReportsPredictGate ==
    PrintedDryRunReport /\ proc.cmd \in {"preset_apply", "preset_import"}
        => (DryRunReportRequiresConsent <=> RunWithoutDryRunIsRefused)

\* ------------------------------------------------------------------------
\* the rollback command
\* ------------------------------------------------------------------------

\* `zeroclaw security profile set strict`, the report's rollback_command
RollbackArgs ==
    [level |-> "strict", non_cli_approval |-> None, dry_run |-> FALSE,
     yes_risk |-> FALSE, json |-> FALSE, export_diff |-> FALSE]

StrictAutonomy == autonomy_config_for_security_profile_id("strict")

RanRollback == proc.cmd = "security_profile_set" /\ proc.args = RollbackArgs

\* C32: from every reachable config state the rollback command
\* `security profile set strict`, with no other flag, needs no consent flag,
\* succeeds and commits the code-defined strict AutonomyConfig.
C32_RollbackAlwaysPossible ==
    /\ LET r == handle_security_set(autonomy, RollbackArgs)
       IN /\ ~r.report.requires_explicit_risk_consent
          /\ r.exit = "ok"
          /\ r.config_saved
          /\ r.autonomy = StrictAutonomy
    /\ RanRollback =>
          /\ proc.exit = "ok"
          /\ proc.result.config_saved
          /\ autonomy = StrictAutonomy
          /\ proc.result.report.rollback_command = "zeroclaw security profile set strict"

\* the rollback ran from the full profile with non-CLI auto approval enabled
C32_Witness ==
    /\ RanRollback
    /\ proc.before_autonomy.level = "full"
    /\ proc.before_autonomy.allow_non_cli_auto_approval
    /\ proc.exit = "ok"
    /\ autonomy = StrictAutonomy

\* ------------------------------------------------------------------------
\* the pending login when the login fails after the callback
\* ------------------------------------------------------------------------

\* the browser flow received the code and the exchange or the store failed
LoginFailedAfterCallback ==
    /\ proc.cmd = "auth_login"
    /\ proc.result.loopback = "code"
    /\ proc.exit = "fail"

SavedPendingStillOnDisk ==
    load_pending_oauth_login(auth_store, pending_provider(proc.args.provider))
        = Succeeded(proc.result.saved)

\* C33: for both OAuth providers the pending login is removed only after the
\* tokens were stored: when the code-for-token exchange or the profile store
\* fails after the loopback code was received, the pending login is still on
\* disk.
C33_PendingKeptUntilTokensStored ==
    LoginFailedAfterCallback =>
        /\ auth_store.profiles = proc.before_store.profiles
        /\ SavedPendingStillOnDisk

\* gemini: the exchange failed and the pending login saved by this run is gone
C33_GeminiPendingLost ==
    /\ LoginFailedAfterCallback
    /\ proc.args.provider = "gemini"
    /\ IsSome(proc.result.saved)
    /\ auth_store.pending["gemini"] = AbsentFile
    /\ <<"gemini", proc.args.profile>> \notin auth_store.profiles

\* openai-codex keeps the pending login when the exchange fails
C33_OpenAiPendingKept ==
    LoginFailedAfterCallback /\ proc.args.provider = "openai-codex"
        => SavedPendingStillOnDisk

\* ------------------------------------------------------------------------
\* concurrent estop engages
\* ------------------------------------------------------------------------

BothEstopsFinished == \A pid \in EstopPids : estop_procs[pid].pc = "finished"

EngagedLevelOf(pid) ==
    build_engage_level(Unwrap(estop_procs[pid].args).level,
                       Unwrap(estop_procs[pid].args).domains,
                       Unwrap(estop_procs[pid].args).tools).value

\* the persisted state contains the level
LevelIsEngaged(state, level) ==
    CASE level.kind = "KillAll" -> state.kill_all
      [] level.kind = "NetworkKill" -> state.network_kill
      [] level.kind = "DomainBlock" -> level.items \subseteq state.blocked_domains
      [] level.kind = "ToolFreeze" -> level.items \subseteq state.frozen_tools

\* C34: when two estop processes run concurrently on the same config
\* directory, each loading the state, applying its engage and persisting,
\* the persisted EstopState after both finished contains the engaged level
\* of both.
C34_ConcurrentEngagesKept ==
    BothEstopsFinished =>
        \A pid \in EstopPids : LevelIsEngaged(estop_file, EngagedLevelOf(pid))

\* both processes finished and the kill-all of one of them is not persisted
C34_KillAllLost ==
    /\ BothEstopsFinished
    /\ \E pid \in EstopPids :
          /\ EngagedLevelOf(pid).kind = "KillAll"
          /\ ~estop_file.kill_all

\* ------------------------------------------------------------------------
\* load next to clear
\* ------------------------------------------------------------------------

LoadReturned == oauth_io.loader.pc = "returned"

\* C35: load_pending_oauth_login running concurrently with
\* clear_pending_oauth_login (truncate, then unlink) returns either the
\* complete pending login or None, never an error and never a partial
\* record.
C35_LoadNextToClear ==
    LoadReturned => oauth_io.loader.result \in {"Ok(Some(pending))", "Ok(None)"}

\* the loader saw the file exist, the clearer unlinked it without any save
\* running, and the read failed
C35_LoadFailedNotFound ==
    /\ LoadReturned
    /\ oauth_io.loader.result = "Err(NotFound)"
    /\ oauth_io.clearer.pc = "returned"
    /\ \A pid \in SaverPids : oauth_io.pc[pid] = "not_started"

\* ------------------------------------------------------------------------
\* the host validate_url checks and the host the browser connects to
\* ------------------------------------------------------------------------

AcceptedHttpUrl ==
    /\ RanValidateUrl
    /\ proc.args.url.scheme \in HttpSchemes
    /\ proc.result.ok

\* the host of the URL authority, after any userinfo and before any port,
\* path, query or fragment
ConnectedHost == <<Unwrap(proc.args.url.host)>>

\* C36: for every http/https URL that validate_url accepts, the host the
\* browser connects to is the host extract_host returned, is not private and
\* matches allowed_domains.
C36_AcceptedHostIsConnectedHost ==
    AcceptedHttpUrl =>
        /\ extract_host(proc.args.url.text) = Succeeded(ConnectedHost)
        /\ ~is_private_host(ConnectedHost)
        /\ host_matches_allowlist(ConnectedHost, proc.args.allowed_domains)

\* accepted with an allowlist of one public domain while the browser connects
\* to a private address
C36_AcceptedPrivateHost ==
    /\ AcceptedHttpUrl
    /\ proc.args.allowed_domains = <<"example.com">>
    /\ extract_host(proc.args.url.text) = Succeeded(<<"example.com">>)
    /\ is_private_host(ConnectedHost)

\* without userinfo, query and fragment extract_host agrees with the URL
C36_PlainUrlsAgree ==
    (AcceptedHttpUrl /\ Len(proc.args.url.text) <= 2)
        => /\ extract_host(proc.args.url.text) = Succeeded(ConnectedHost)
           /\ ~is_private_host(ConnectedHost)
           /\ host_matches_allowlist(ConnectedHost, proc.args.allowed_domains)

\* ------------------------------------------------------------------------
\* Tool::execute of the browser tool: security checks and the action budget
\* ------------------------------------------------------------------------

RanBrowserExecute == proc.cmd = "browser_tool" /\ IsSome(proc.last)

LastCall == Unwrap(proc.last)

BudgetUsedByLastCall ==
    LastCall.out.security.actions - LastCall.before_security.actions

NothingResolvedOrDone ==
    /\ LastCall.out.resolved = None
    /\ LastCall.out.dispatched = None
    /\ LastCall.out.tab_used = None
    /\ LastCall.out.native_state = LastCall.before_native

RateLimitExceeded ==
    /\ can_act(LastCall.before_security)
    /\ LastCall.before_security.actions + 1 > LastCall.before_security.max_actions_per_hour

\* C37: execute resolves no backend and performs no browser action when the
\* policy is read-only or when record_action reports the rate limit exceeded;
\* a read-only rejection consumes nothing from the budget, and every call
\* that passes can_act consumes exactly one action, also when it is rejected
\* later.
C37_SecurityChecksBeforeBackend ==
    RanBrowserExecute
    => /\ ~can_act(LastCall.before_security)
            => /\ NothingResolvedOrDone
               /\ BudgetUsedByLastCall = 0
               /\ LastCall.out.record_action_calls = 0
       /\ RateLimitExceeded => NothingResolvedOrDone
       /\ can_act(LastCall.before_security)
            => BudgetUsedByLastCall = 1 /\ LastCall.out.record_action_calls = 1

\* a call that passed both checks, consumed one action and was then rejected
\* because the URL is not allowed
C37_Witness ==
    /\ RanBrowserExecute
    /\ LastCall.before_security.actions = 1
    /\ BudgetUsedByLastCall = 1
    /\ LastCall.out.returned = "Err"
    /\ LastCall.out.error = Some("Host not in browser.allowed_domains")

\* a call rejected by the rate limit after earlier calls used the budget
C37_RateLimited ==
    /\ RanBrowserExecute
    /\ RateLimitExceeded
    /\ LastCall.before_security.max_actions_per_hour > 0
    /\ LastCall.out.error = Some("Action blocked: rate limit exceeded")

\* ------------------------------------------------------------------------
\* The rust-native session: created by open, ended by close
\* ------------------------------------------------------------------------

NoSession(state) == state.browser = None /\ state.tab = None

\* the last call reached NativeBrowserState::execute_action
RanNativeAction ==
    /\ RanBrowserExecute
    /\ LastCall.out.resolved = Some("RustNative")
    /\ IsSome(LastCall.out.dispatched)

NativeAction == Unwrap(LastCall.out.dispatched)

LaunchErrors ==
    {"Failed to initialize rust-native browser backend",
     "Failed to create browser tab"}

\* C38: in the rust-native backend only `open` creates a session; any action
\* other than open and close issued without a session fails with the
\* no-active-session error and leaves no session; open reuses an existing
\* session; close always succeeds and ends the session; a failed launch or
\* tab creation leaves no session.
C38_NativeSessionLifecycle ==
    RanNativeAction
    => /\ (NativeAction \notin {"open", "close"} /\ NoSession(LastCall.before_native))
            => /\ LastCall.out.returned = "Err"
               /\ LastCall.out.error = Some("No active native browser session")
               /\ LastCall.out.tab_used = None
               /\ NoSession(LastCall.out.native_state)
       /\ (NativeAction = "open" /\ ~NoSession(LastCall.before_native))
            => /\ LastCall.out.native_state = LastCall.before_native
               /\ LastCall.out.tab_used = LastCall.before_native.tab
       /\ NativeAction = "close"
            => /\ LastCall.out.returned = "Ok(success)"
               /\ NoSession(LastCall.out.native_state)
       /\ (IsSome(LastCall.out.error) /\ Unwrap(LastCall.out.error) \in LaunchErrors)
            => NoSession(LastCall.out.native_state)
       /\ LastCall.out.native_state # LastCall.before_native
            => NativeAction \in {"open", "close"}
       /\ (NoSession(LastCall.before_native) /\ ~NoSession(LastCall.out.native_state))
            => NativeAction = "open"
       /\ NoSession(proc.native_state) \/ proc.native_state.browser = proc.native_state.tab

\* after an open and a close, a snapshot fails for want of a session
C38_Witness ==
    /\ RanNativeAction
    /\ proc.calls = 3
    /\ NativeAction = "snapshot"
    /\ NoSession(LastCall.before_native)
    /\ LastCall.out.error = Some("No active native browser session")

\* an open whose tab creation failed
C38_TabCreationFailed ==
    /\ RanNativeAction
    /\ NativeAction = "open"
    /\ LastCall.out.error = Some("Failed to create browser tab")

\* an open that reused the session of an earlier open
C38_OpenReusedSession ==
    /\ RanNativeAction
    /\ NativeAction = "open"
    /\ LastCall.before_native.tab = Some(1)
    /\ LastCall.out.tab_used = Some(1)
    /\ proc.calls = 2

\* ------------------------------------------------------------------------
\* auth paste-redirect without a matching pending login
\* ------------------------------------------------------------------------

RanPasteRedirect ==
    /\ proc.cmd = "auth_paste_redirect"
    /\ proc.args.provider \in {"gemini", "openai-codex"}

PendingBeforePaste == proc.before_store.pending[pending_provider(proc.args.provider)]

NoPendingLogin == PendingBeforePaste.kind \in {"absent", "empty"}

PendingProfileDiffers ==
    /\ ~NoPendingLogin
    /\ PendingBeforePaste.profile # proc.args.profile

\* C39: auth paste-redirect with no pending login for the provider, or with a
\* pending login saved for another profile, fails, stores no auth profile and
\* leaves the pending file as it was.
C39_PasteRedirectNeedsMatchingPending ==
    (RanPasteRedirect /\ (NoPendingLogin \/ PendingProfileDiffers))
    => /\ proc.exit = "fail"
       /\ auth_store.profiles = proc.before_store.profiles
       /\ auth_store.pending = proc.before_store.pending
       /\ proc.stderr \in {<<"error:no_pending_login">>, <<"error:profile_mismatch">>,
                           <<"error:pending_unreadable">>}

\* a paste-redirect for another profile than the pending login's, with a
\* valid redirect and a token exchange that would succeed
C39_Witness ==
    /\ RanPasteRedirect
    /\ PendingProfileDiffers
    /\ proc.args.parse_ok
    /\ proc.args.exchange_ok
    /\ proc.stderr = <<"error:profile_mismatch">>
    /\ auth_store.pending[pending_provider(proc.args.provider)] = PendingBeforePaste

\* a paste-redirect with no pending file
C39_NoPending ==
    /\ RanPasteRedirect
    /\ PendingBeforePaste.kind = "absent"
    /\ proc.stderr = <<"error:no_pending_login">>

\* ------------------------------------------------------------------------
\* Report, then persist; the persisted state is the old or the new one
\* ------------------------------------------------------------------------

PresetMutations == {"preset_apply", "preset_import", "preset_intent"}

RanMutation == proc.cmd \in PresetMutations \cup {"security_profile_set"}

\* the run reached save_workspace_selection or Config::save
Committed ==
    IF proc.cmd = "security_profile_set" THEN proc.result.config_saved
    ELSE proc.result.saved

ReportLines ==
    {"json:security.profile_change", "text:security_change_report",
     "text:preset_plan", "text:import_plan", "text:intent_plan"}

SavedLines == {"text:saved_config", "text:saved_selection"}

\* a report line is in the output, ahead of every line printed after the save
ReportEmittedBeforePersist ==
    \E i \in 1..Len(proc.result.stdout) :
        /\ proc.result.stdout[i] \in ReportLines
        /\ \A j \in 1..Len(proc.result.stdout) :
               proc.result.stdout[j] \in SavedLines => i < j

PreCommandState ==
    /\ selection_file = proc.before_selection
    /\ autonomy = proc.before_autonomy

PostCommandState ==
    IF proc.cmd = "security_profile_set"
    THEN /\ autonomy = security_set_target(proc.args)
         /\ selection_file = proc.before_selection
    ELSE /\ IsSome(proc.result.planned)
         /\ selection_file = proc.result.planned
         /\ autonomy = proc.before_autonomy

\* C40: a run of security profile set, preset apply, preset import or preset
\* intent --apply that commits has emitted its report before it persists, and
\* after any such run the persisted state is the complete state from before
\* the command or the complete state the command planned.
C40_ReportThenPersist ==
    RanMutation
    => /\ Committed => ReportEmittedBeforePersist /\ PostCommandState
       /\ ~Committed => PreCommandState

\* a committed preset apply whose rebuild was refused after the save
C40_Witness ==
    /\ proc.cmd = "preset_apply"
    /\ Committed
    /\ proc.exit = "fail"
    /\ selection_file # proc.before_selection
    /\ ReportEmittedBeforePersist

\* a committed security profile set in JSON mode
C40_SecurityJsonCommit ==
    /\ proc.cmd = "security_profile_set"
    /\ Committed
    /\ proc.args.json
    /\ autonomy # proc.before_autonomy
    /\ proc.result.stdout = <<"json:security.profile_change">>

\* a committed preset intent --apply
C40_IntentCommit ==
    /\ proc.cmd = "preset_intent"
    /\ Committed
    /\ selection_file # proc.before_selection

====
